---- MODULE Spec2Model ----
(***************************************************************************)
(* Injury-Predictive-Model: the batch scripts under src/scripts modelled   *)
(* as state machines.  Each script is a sequential loop; every loop is     *)
(* modelled step by step with a program counter.                           *)
(*                                                                         *)
(*   SpecDay      auto_detect_injuries.py   detect_injuries_on_date        *)
(*   SpecAnalyze  detect_injuries.py        analyze_injuries               *)
(*   SpecRolling  rolling_window_features.py create_rolling_features       *)
(*   SpecCollect  data_collector.py         main / collect_data_for_date   *)
(*   SpecLight    lightweight_collector.py  collect_multiple_dates /       *)
(*                                          collect_date_lightweight       *)
(*   SpecUpdate   auto_detect_injuries.py   update_injury_dates_csv        *)
(*   SpecLabel    create_labeled_dataset.py create_labeled_dataset         *)
(*   SpecProcess  process_injury_dates.py   main: expand, missing dates,   *)
(*                                          match_sessions_to_labels       *)
(*   SpecTrain    train_model.py            train_injury_model             *)
(*   SpecSummary  create_training_data.py   create_training_data           *)
(*   SpecPrepare  prepare_model_data.py     prepare_model_data             *)
(*   SpecReapply  auto_detect_injuries.py   update_injury_dates_csv, twice *)
(*   SpecMonitor  live_risk_monitor.py      predict_live_risk              *)
(*                                                                         *)
(* Durations are kept in whole minutes (whole seconds for raw timestamps); *)
(* the float comparisons of the code are done by cross-multiplication so   *)
(* that no rounding is introduced by the model.                            *)
(***************************************************************************)
EXTENDS Integers, Sequences, FiniteSets, TLC

VARIABLES
    \* ---- auto_detect_injuries.py: detect_injuries_on_date ----
    df,                 \* the features table read from lightweight_features.csv
    target_date,        \* the date argument
    date_sessions,      \* df[df['date'] == target_date]
    di_i,               \* position of the iterrows() loop in date_sessions
    injured_athletes,   \* the list being built and returned
    di_pc               \* "idle" | "start" | "loop" | "returned"

VARIABLES
    \* ---- detect_injuries.py: analyze_injuries ----
    files,              \* data_path.glob("*.json"), in the order glob yields them
    detected_csv,       \* config/detected_injuries.csv (<<>> when absent)
    ai_i,               \* position of the file loop
    athlete_sessions,   \* dict athlete_id -> [session_info], in insertion order
    session_durations,  \* dict activity_id -> [duration_minutes]
    injured_candidates, \* candidates in the order they were appended
    unique_injured,     \* the de-duplicated, sorted list that is returned
    ai_errors,          \* number of "Error reading ..." lines printed
    ai_pc               \* "idle" | "files" | "early" | "dedup" | "returned"

VARIABLES
    \* ---- rolling_window_features.py: create_rolling_features ----
    rf_ts,              \* df['ts']: the timestamps (seconds) in payload order
    rf_name_parts,      \* number of '_'-separated tokens of the file name
    window_intervals,   \* the cutoffs, in minutes
    rf_i,               \* position of the loop over window_intervals
    rolling_features,   \* the rows built so far
    rf_pc               \* "idle" | "start" | "loop" | "returned" |
                        \* "returned_none" | "raised"

VARIABLES
    \* ---- data_collector.py: main / collect_data_for_date ----
    dc_token,           \* TOKEN: whether MSOC_API_KEY is set
    dc_d,               \* position of main's loop over dates
    dc_activities,      \* len(activities) of the current date
    dc_a,               \* position of the loop over activities
    dc_roster,          \* len(roster) of the current activity
    dc_i,               \* position of the loop over the roster
    total_files,        \* collect_data_for_date's counter
    dc_result,          \* the value collect_data_for_date returned last
    main_total,         \* main's total_files
    dc_rosters,         \* the roster sizes get_roster answered in this call
    dc_log,             \* the sensor requests of this call: [act, ath, outcome]
    dc_unslept,         \* sensor requests issued since the last time.sleep
    dc_pc               \* "idle" | "main" | "activities" | "roster" | "sensor" |
                        \* "sleep" | "returned" | "done" | "crashed" |
                        \* "config_error"

VARIABLES
    \* ---- lightweight_collector.py: collect_multiple_dates ----
    lw_token,           \* TOKEN: whether MSOC_API_KEY is set
    lw_argv,            \* the dates given on the command line
    lw_d,               \* position of the loop over dates
    lw_activities,      \* len(activities) of the current date
    lw_a,               \* position of the loop over activities
    lw_roster,          \* len(roster) of the current activity
    lw_i,               \* position of the loop over the roster
    all_features,       \* the feature dicts of the current date
    lw_result,          \* what collect_date_lightweight returned last
    total_sessions,     \* collect_multiple_dates' counter
    lw_csv,             \* the output csv: [exists, header, rows]
    lw_requests,        \* vendor API requests issued so far
    lw_unslept,         \* sensor requests issued since the last time.sleep
    lw_pc               \* "idle" | "main" | "activities" | "roster" | "sensor" |
                        \* "sleep" | "returned" | "done" | "crashed"

VARIABLES
    \* ---- auto_detect_injuries.py: update_injury_dates_csv ----
    injury_dates_csv,   \* config/injury_dates.csv: its rows
    detected_injuries,  \* the argument: date -> detected entries (<<>>: no key)
    df_injuries,        \* the frame read from the csv and updated in place
    ui_before,          \* the frame as read_csv returned it
    ui_idx,             \* position of the iterrows loop
    updated_count,      \* the counter of updated rows
    ui_calls,           \* how many times the function has been called
    ui_pc               \* "idle" | "start" | "rows" | "returned" | "crashed"

VARIABLES
    \* ---- create_labeled_dataset.py: create_labeled_dataset ----
    rolling_csv,        \* config/rolling_window_features.csv: its rows
    ld_injury_csv,      \* config/injury_dates.csv: its rows
    features_df,        \* the features frame, labelled in place
    injuries_df,        \* the injury records read
    injury_lookup,      \* the set of (athlete_name, injury_date) keys
    ld_j,               \* position of the loop over the injury records
    labeled_csv,        \* config/labeled_training_data.csv (<<>> when absent)
    ld_pc               \* "idle" | "start" | "lookup" | "label" | "save" |
                        \* "returned" | "crashed"

VARIABLES
    \* ---- process_injury_dates.py: create_date_ranges and main ----
    pj_injury_csv,      \* config/injury_dates.csv: its rows
    lookback_days,      \* the argument of create_date_ranges
    data_dir,           \* the entries of the data directory
    injury_df,          \* the injury records with injury_date parsed
    pj_k,               \* position of the loop over the injury records
    date_ranges,        \* the label rows collected so far
    available_dates,    \* what get_available_dates returned
    missing_dates,      \* what identify_missing_dates returned
    labeled_sessions,   \* config/labeled_sessions.csv: the labelled rows
    pj_pc               \* "idle" | "start" | "ranges" | "available" |
                        \* "missing" | "done" | "matched" | "crashed"

VARIABLES
    \* ---- train_model.py: train_injury_model ----
    train_csv,          \* config/labeled_training_data.csv
    tm_df,              \* df = pd.read_csv(...)
    tm_X,               \* X = df[feature_cols].fillna(0), with its index
    tm_y,               \* y = df['injured'], with its index
    train_mask,         \* df['date'] == '2025-01-09'
    test_mask,          \* df['date'] == '2025-01-17'
    X_train,            \* X[train_mask]
    X_test,             \* X[test_mask]
    y_train,            \* y[train_mask]
    y_test,             \* y[test_mask]
    classes_,           \* model.classes_ after fit
    y_pred,             \* model.predict(X_test)
    model_file,         \* models/injury_risk_model.pkl has been written
    tm_pc               \* "idle" | "start" | "masks" | "split" | "fit" |
                        \* "evaluate" | "save" | "returned" | "crashed"

VARIABLES
    \* ---- create_training_data.py: create_training_data ----
    ct_files,           \* data_dir.glob("*.json"), in the order glob yields them
    ct_injury_lookup,   \* load_injury_labels(config_dir)
    ct_i,               \* position of the file loop (enumerate(files, 1))
    session_summaries,  \* the summaries appended so far
    ct_errors,          \* number of "Error reading ..." lines printed
    summary_csv,        \* config/training_data_summary.csv (<<>> when absent)
    clean_csv,          \* config/training_data_clean.csv (<<>> when absent)
    ct_pc               \* "idle" | "start" | "files" | "save" | "returned" |
                        \* "crashed"

VARIABLES
    \* ---- prepare_model_data.py: prepare_model_data ----
    training_summary_csv,   \* config/training_data_summary.csv
    pm_df,                  \* df = pd.read_csv(...)
    df_model,               \* the filtered table
    model_training_csv,     \* config/model_training_data.csv (<<>> when absent)
    pm_pc                   \* "idle" | "start" | "filter" | "save" |
                            \* "returned" | "crashed"

VARIABLES
    \* ---- live_risk_monitor.py: predict_live_risk ----
    lr_parts,           \* number of '_' tokens of the session file's name
    lr_features_csv,    \* config/rolling_window_features.csv
    session_features,   \* the rows of the session
    risk_probabilities, \* the model's risk percentage of each row
    lr_i,               \* position of the display loop
    lr_statuses,        \* the Status column printed so far
    lr_summary,         \* the line printed after SESSION SUMMARY ("" before)
    lr_pc               \* "idle" | "start" | "predict" | "rows" |
                        \* "summary" | "returned"

dayVars == <<df, target_date, date_sessions, di_i, injured_athletes, di_pc>>
aiVars == <<files, detected_csv, ai_i, athlete_sessions, session_durations,
            injured_candidates, unique_injured, ai_errors, ai_pc>>

rfVars == <<rf_ts, rf_name_parts, window_intervals, rf_i, rolling_features, rf_pc>>

dcVars == <<dc_token, dc_d, dc_activities, dc_a, dc_roster, dc_i, total_files,
            dc_result, main_total, dc_rosters, dc_log, dc_unslept, dc_pc>>

lwVars == <<lw_token, lw_argv, lw_d, lw_activities, lw_a, lw_roster, lw_i,
            all_features, lw_result, total_sessions, lw_csv, lw_requests,
            lw_unslept, lw_pc>>

uiVars == <<injury_dates_csv, detected_injuries, df_injuries, ui_before, ui_idx,
            updated_count, ui_calls, ui_pc>>

ldVars == <<rolling_csv, ld_injury_csv, features_df, injuries_df, injury_lookup,
            ld_j, labeled_csv, ld_pc>>

pjVars == <<pj_injury_csv, lookback_days, data_dir, injury_df, pj_k, date_ranges,
            available_dates, missing_dates, labeled_sessions,
            pj_pc>>

tmVars == <<train_csv, tm_df, tm_X, tm_y, train_mask, test_mask, X_train, X_test,
            y_train, y_test, classes_, y_pred, model_file, tm_pc>>

ctVars == <<ct_files, ct_injury_lookup, ct_i, session_summaries, ct_errors,
            summary_csv, clean_csv, ct_pc>>

pmVars == <<training_summary_csv, pm_df, df_model, model_training_csv, pm_pc>>

lrVars == <<lr_parts, lr_features_csv, session_features, risk_probabilities,
            lr_i, lr_statuses, lr_summary, lr_pc>>

vars == <<dayVars, aiVars, rfVars, dcVars, lwVars, uiVars, ldVars, pjVars, tmVars, ctVars, pmVars, lrVars>>

\* what a step of one script leaves alone: the state of the other scripts
notDay == <<aiVars, rfVars, dcVars, lwVars, uiVars, ldVars, pjVars, tmVars, ctVars, pmVars, lrVars>>
notAnalyze == <<dayVars, rfVars, dcVars, lwVars, uiVars, ldVars, pjVars, tmVars, ctVars, pmVars, lrVars>>
notRolling == <<dayVars, aiVars, dcVars, lwVars, uiVars, ldVars, pjVars, tmVars, ctVars, pmVars, lrVars>>
notCollect == <<dayVars, aiVars, rfVars, lwVars, uiVars, ldVars, pjVars, tmVars, ctVars, pmVars, lrVars>>
notLight == <<dayVars, aiVars, rfVars, dcVars, uiVars, ldVars, pjVars, tmVars, ctVars, pmVars, lrVars>>
notUpdate == <<dayVars, aiVars, rfVars, dcVars, lwVars, ldVars, pjVars, tmVars, ctVars, pmVars, lrVars>>
notLabel == <<dayVars, aiVars, rfVars, dcVars, lwVars, uiVars, pjVars, tmVars, ctVars, pmVars, lrVars>>
notProcess == <<dayVars, aiVars, rfVars, dcVars, lwVars, uiVars, ldVars, tmVars, ctVars, pmVars, lrVars>>
notTrain == <<dayVars, aiVars, rfVars, dcVars, lwVars, uiVars, ldVars, pjVars, ctVars, pmVars, lrVars>>
notSummary == <<dayVars, aiVars, rfVars, dcVars, lwVars, uiVars, ldVars, pjVars, tmVars, pmVars, lrVars>>
notPrepare == <<dayVars, aiVars, rfVars, dcVars, lwVars, uiVars, ldVars, pjVars, tmVars, ctVars, lrVars>>
notMonitor == <<dayVars, aiVars, rfVars, dcVars, lwVars, uiVars, ldVars, pjVars, tmVars, ctVars, pmVars>>

(***************************************************************************)
(* Generic helpers                                                         *)
(***************************************************************************)
RECURSIVE SumSeq(_)
SumSeq(s) == IF s = <<>> THEN 0 ELSE Head(s) + SumSeq(Tail(s))

RECURSIVE RowsOnDate(_, _, _)
\* df[df['date'] == date]: the indices i.. of the table's rows on that date
RowsOnDate(table, date, i) ==
    IF i > Len(table) THEN <<>>
    ELSE IF table[i].date = date THEN <<i>> \o RowsOnDate(table, date, i + 1)
    ELSE RowsOnDate(table, date, i + 1)

SeqsUpTo(S, n) == UNION {[1..k -> S] : k \in 0..n}

(***************************************************************************)
(* auto_detect_injuries.py : detect_injuries_on_date                       *)
(***************************************************************************)
MaxRows == 4                    \* rows of the features table
Dates == {1, 2}                 \* calendar dates, ordered
DayShapes ==                    \* (data_points, duration_minutes) of a row;
    { <<0, 0>>,                 \* extract_features writes duration 0 with 0 points
      <<999, 5>>, <<999, 30>>,
      <<1000, 2>>, <<1000, 5>>, <<1000, 10>>, <<1000, 30>> }

FeatureRows ==
    { [date |-> d, data_points |-> sh[1], duration_minutes |-> sh[2]] :
        d \in Dates, sh \in DayShapes }

MinimalDataPoints == 1000       \* elif data_points < 1000
ShortDayMinutes == 10           \* avg_duration > 10

\* the mean of date_sessions['duration_minutes'] is SumDur / Count; the
\* comparisons against it are multiplied through by Count (and by 2 for * 0.5)
\* line 70: duration < avg_duration * 0.5 and avg_duration > 10
EarlyExitNoAvgGuard(duration, sumDur, count) ==
    2 * count * duration < sumDur
EarlyExit(duration, sumDur, count) ==
    /\ 2 * count * duration < sumDur
    /\ sumDur > ShortDayMinutes * count

\* lines 52-78: the if / elif / elif chain; "NONE" when no branch is taken
DayReasonLoose(data_points, duration, sumDur, count) ==
    IF data_points = 0 THEN "NO DATA"
    ELSE IF data_points <= MinimalDataPoints THEN "MINIMAL DATA"
    ELSE IF EarlyExit(duration, sumDur, count) THEN "EARLY EXIT"
    ELSE "NONE"
DayReason(data_points, duration, sumDur, count) ==
    IF data_points = 0 THEN "NO DATA"
    ELSE IF data_points < MinimalDataPoints THEN "MINIMAL DATA"
    ELSE IF EarlyExit(duration, sumDur, count) THEN "EARLY EXIT"
    ELSE "NONE"

\* the dict appended for a session (row is the session's index in df; the
\* EARLY EXIT reason string is formatted from duration and avg_duration)
DayEntry(row, session, reason) ==
    [ row |-> row,
      reason |-> reason,
      data_points |-> IF reason = "NO DATA" THEN 0 ELSE session.data_points,
      duration_minutes |-> IF reason = "NO DATA" THEN 0
                           ELSE session.duration_minutes ]

DayIdle ==
    /\ df = <<>>
    /\ target_date = 0
    /\ date_sessions = <<>>
    /\ di_i = 0
    /\ injured_athletes = <<>>
    /\ di_pc = "idle"

DayInit ==
    /\ df \in SeqsUpTo(FeatureRows, MaxRows)
    /\ target_date \in Dates
    /\ date_sessions = <<>>
    /\ di_i = 0
    /\ injured_athletes = <<>>
    /\ di_pc = "start"

\* lines 34-38: select the date's sessions; return [] when there is none
DI_Select ==
    /\ UNCHANGED notDay
    /\ di_pc = "start"
    /\ LET sel == RowsOnDate(df, target_date, 1)
       IN /\ date_sessions' = sel
          /\ di_pc' = IF Len(sel) = 0 THEN "returned" ELSE "loop"
    /\ di_i' = 1
    /\ UNCHANGED <<df, target_date, injured_athletes>>

\* lines 46-78: one iteration of the iterrows() loop
DI_Row ==
    /\ UNCHANGED notDay
    /\ di_pc = "loop"
    /\ di_i <= Len(date_sessions)
    /\ LET row == date_sessions[di_i]
           session == df[row]
           durs == [k \in 1..Len(date_sessions) |->
                        df[date_sessions[k]].duration_minutes]
           reason == DayReason(session.data_points, session.duration_minutes,
                               SumSeq(durs), Len(date_sessions))
       IN injured_athletes' =
              IF reason = "NONE" THEN injured_athletes
              ELSE Append(injured_athletes, DayEntry(row, session, reason))
    /\ di_i' = di_i + 1
    /\ UNCHANGED <<df, target_date, date_sessions, di_pc>>

\* line 80: return injured_athletes
DI_Return ==
    /\ UNCHANGED notDay
    /\ di_pc = "loop"
    /\ di_i > Len(date_sessions)
    /\ di_pc' = "returned"
    /\ UNCHANGED <<df, target_date, date_sessions, di_i, injured_athletes>>

DayNext == DI_Select \/ DI_Row \/ DI_Return

(***************************************************************************)
(* detect_injuries.py : analyze_injuries                                   *)
(***************************************************************************)
MaxFiles == 2                   \* files in the data directory
AthleteIds == {1, 2}
ActivityIds == {1, 2}
AthleteName(a) == 3 - a         \* names sort in another order than the ids
FileShapes ==                   \* (file_size, len(data), duration_minutes)
    { <<999, 0, 0>>, <<1000, 0, 0>>,
      <<999, 100, 5>>,
      <<1000, 99, 5>>, <<1000, 99, 30>>,
      <<1000, 100, 0>>,         \* samples without 'ts': end_ts - start_ts = 0
      <<1000, 100, 1>>, <<1000, 100, 5>>, <<1000, 100, 30>> }

\* a file of the directory: "ok" parses, "badname" has a name that does not
\* split into three tokens, "badjson" makes json.load raise
OkFiles ==
    { [kind |-> "ok", date |-> d, athlete_id |-> a, activity_id |-> c,
       file_size |-> sh[1], data_points |-> sh[2], duration_minutes |-> sh[3]] :
        d \in Dates, a \in AthleteIds, c \in ActivityIds, sh \in FileShapes }
BadFiles ==
    { [kind |-> "badname", date |-> 0, athlete_id |-> 0, activity_id |-> 0,
       file_size |-> 999, data_points |-> 0, duration_minutes |-> 0] }
    \cup
    { [kind |-> "badjson", date |-> d, athlete_id |-> 1, activity_id |-> 1,
       file_size |-> 999, data_points |-> 0, duration_minutes |-> 0] :
        d \in Dates }
FileName(f) == <<f.date, f.athlete_id, f.activity_id>>

SmallFileBytes == 1000          \* if file_size < 1000
MinimalFilePoints == 100        \* elif num_points < 100
ShortActivityMinutes == 10      \* if avg_duration > 10 and ...

NoReason == [tag |-> "NONE", n |-> 0]

\* lines 89-98: the per-file flag; n is the N of 'MINIMAL DATA (N points)'
FileReasonSwapped(file_size, num_points) ==
    IF num_points < MinimalFilePoints
        THEN [tag |-> "MINIMAL DATA", n |-> num_points]
    ELSE IF file_size < SmallFileBytes
        THEN [tag |-> "NO DATA (file < 1KB)", n |-> 0]
    ELSE NoReason
FileReason(file_size, num_points) ==
    IF file_size < SmallFileBytes
        THEN [tag |-> "NO DATA (file < 1KB)", n |-> 0]
    ELSE IF num_points < MinimalFilePoints
        THEN [tag |-> "MINIMAL DATA", n |-> num_points]
    ELSE NoReason

\* lines 112-113, with avg_duration = sumDur / count
ActivityEarlyExitNoAvgGuard(duration, sumDur, count) ==
    /\ duration > 0
    /\ 2 * count * duration < sumDur
ActivityEarlyExit(duration, sumDur, count) ==
    /\ sumDur > ShortActivityMinutes * count
    /\ duration > 0
    /\ 2 * count * duration < sumDur

\* lines 74-83: session_info
SessionInfo(f) ==
    [ date |-> f.date, athlete_id |-> f.athlete_id,
      athlete_name |-> AthleteName(f.athlete_id),
      activity_id |-> f.activity_id, file_size |-> f.file_size,
      data_points |-> f.data_points, duration_minutes |-> f.duration_minutes ]

Candidate(session, reason) ==
    [ date |-> session.date, athlete_id |-> session.athlete_id,
      athlete_name |-> session.athlete_name,
      activity_id |-> session.activity_id, file_size |-> session.file_size,
      data_points |-> session.data_points,
      duration_minutes |-> session.duration_minutes, reason |-> reason ]

\* line 85: athlete_sessions[athlete_id].append(session_info)
RECURSIVE AddSession(_, _)
AddSession(dict, session) ==
    IF dict = <<>>
        THEN << [athlete_id |-> session.athlete_id, sessions |-> <<session>>] >>
    ELSE IF Head(dict).athlete_id = session.athlete_id
        THEN << [Head(dict) EXCEPT !.sessions = Append(@, session)] >> \o Tail(dict)
    ELSE << Head(dict) >> \o AddSession(Tail(dict), session)

\* lines 107-108: the sessions in the order the nested loops visit them
RECURSIVE AllSessions(_)
AllSessions(dict) ==
    IF dict = <<>> THEN <<>> ELSE Head(dict).sessions \o AllSessions(Tail(dict))

\* lines 106-118: the EARLY EXIT candidates, in loop order
RECURSIVE EarlyCandidates(_, _)
EarlyCandidates(sessions, durations) ==
    IF sessions = <<>> THEN <<>>
    ELSE LET s == Head(sessions)
             ds == durations[s.activity_id]
         IN (IF ActivityEarlyExit(s.duration_minutes, SumSeq(ds), Len(ds))
                THEN << Candidate(s, [tag |-> "EARLY EXIT", n |-> 0]) >>
                ELSE <<>>)
            \o EarlyCandidates(Tail(sessions), durations)

CandidateKey(c) == <<c.athlete_id, c.activity_id>>

\* lines 121-127: keep the first candidate of every (athlete_id, activity_id)
RECURSIVE DedupFrom(_, _)
DedupFrom(cands, seen) ==
    IF cands = <<>> THEN <<>>
    ELSE IF CandidateKey(Head(cands)) \in seen
        THEN DedupFrom(Tail(cands), seen)
    ELSE << Head(cands) >>
            \o DedupFrom(Tail(cands), seen \cup {CandidateKey(Head(cands))})

RECURSIVE ReverseSeq(_)
ReverseSeq(s) == IF s = <<>> THEN <<>> ELSE Append(ReverseSeq(Tail(s)), Head(s))

UniqueKeepLast(cands) == ReverseSeq(DedupFrom(ReverseSeq(cands), {}))
Unique(cands) == DedupFrom(cands, {})

\* line 129: list.sort(key=(date, athlete_name)) - a stable sort
SortKeyLeq(x, y) ==
    \/ x.date < y.date
    \/ x.date = y.date /\ x.athlete_name <= y.athlete_name
RECURSIVE InsertSorted(_, _)
InsertSorted(sorted, x) ==
    IF sorted = <<>> THEN <<x>>
    ELSE IF SortKeyLeq(Head(sorted), x)
        THEN << Head(sorted) >> \o InsertSorted(Tail(sorted), x)
    ELSE <<x>> \o sorted
RECURSIVE SortByDateName(_)
SortByDateName(s) ==
    IF s = <<>> THEN <<>>
    ELSE InsertSorted(SortByDateName(SubSeq(s, 1, Len(s) - 1)), s[Len(s)])

StaleCsv == << "stale" >>       \* what an earlier run left in the csv

AnalyzeIdle ==
    /\ files = <<>>
    /\ detected_csv = <<>>
    /\ ai_i = 0
    /\ athlete_sessions = <<>>
    /\ session_durations = <<>>
    /\ injured_candidates = <<>>
    /\ unique_injured = <<>>
    /\ ai_errors = 0
    /\ ai_pc = "idle"

AnalyzeInit ==
    /\ files \in SeqsUpTo(OkFiles \cup BadFiles, MaxFiles)
    /\ \A i, j \in 1..Len(files) : i # j => FileName(files[i]) # FileName(files[j])
    /\ detected_csv \in {<<>>, StaleCsv}
    /\ ai_i = 1
    /\ athlete_sessions = <<>>
    /\ session_durations = [c \in ActivityIds |-> <<>>]
    /\ injured_candidates = <<>>
    /\ unique_injured = <<>>
    /\ ai_errors = 0
    /\ ai_pc = "files"

\* lines 32-98: one iteration of the file loop
AI_File ==
    /\ UNCHANGED notAnalyze
    /\ ai_pc = "files"
    /\ ai_i <= Len(files)
    /\ LET f == files[ai_i]
           session == SessionInfo(f)
           reason == FileReason(f.file_size, f.data_points)
       IN CASE f.kind = "badname" ->          \* lines 38-39: continue
                  UNCHANGED <<athlete_sessions, session_durations,
                              injured_candidates, ai_errors>>
            [] f.kind = "badjson" ->          \* lines 54-56: print, continue
                  /\ ai_errors' = ai_errors + 1
                  /\ UNCHANGED <<athlete_sessions, session_durations,
                                 injured_candidates>>
            [] OTHER ->
                  /\ athlete_sessions' = AddSession(athlete_sessions, session)
                  /\ session_durations' =
                        [session_durations EXCEPT
                            ![f.activity_id] = Append(@, f.duration_minutes)]
                  /\ injured_candidates' =
                        IF reason = NoReason THEN injured_candidates
                        ELSE Append(injured_candidates, Candidate(session, reason))
                  /\ UNCHANGED ai_errors
    /\ ai_i' = ai_i + 1
    /\ UNCHANGED <<files, detected_csv, unique_injured, ai_pc>>

\* the file loop is exhausted
AI_FilesDone ==
    /\ UNCHANGED notAnalyze
    /\ ai_pc = "files"
    /\ ai_i > Len(files)
    /\ ai_pc' = "early"
    /\ UNCHANGED <<files, detected_csv, ai_i, athlete_sessions, session_durations,
                   injured_candidates, unique_injured, ai_errors>>

\* lines 100-118: per-activity averages and the early-termination loop
AI_EarlyExit ==
    /\ UNCHANGED notAnalyze
    /\ ai_pc = "early"
    /\ injured_candidates' =
          injured_candidates
              \o EarlyCandidates(AllSessions(athlete_sessions), session_durations)
    /\ ai_pc' = "dedup"
    /\ UNCHANGED <<files, detected_csv, ai_i, athlete_sessions, session_durations,
                   unique_injured, ai_errors>>

\* lines 120-168: de-duplicate, sort, save to csv when non-empty, return
AI_Report ==
    /\ UNCHANGED notAnalyze
    /\ ai_pc = "dedup"
    /\ LET result == SortByDateName(Unique(injured_candidates))
       IN /\ unique_injured' = result
          /\ detected_csv' = IF result # <<>> THEN result ELSE detected_csv
    /\ ai_pc' = "returned"
    /\ UNCHANGED <<files, ai_i, athlete_sessions, session_durations,
                   injured_candidates, ai_errors>>

AnalyzeNext == AI_File \/ AI_FilesDone \/ AI_EarlyExit \/ AI_Report

(***************************************************************************)
(* rolling_window_features.py : create_rolling_features                    *)
(***************************************************************************)
MaxBlocks == 3                  \* runs of samples a payload is made of
MaxCutoffs == 2                 \* length of window_intervals
Cutoffs == {1, 2}               \* minutes
FirstTs == 1000                 \* the clock before the first sample

\* a run of samples: <<how many, seconds from each sample to the next>>;
\* a negative step is a payload whose samples are not in time order
BlockShapes == { <<100, 0>>, <<100, 1>>, <<99, 1>>, <<1, 120>>, <<1, -120>> }

RECURSIVE Run(_, _, _)
Run(from, step, count) ==
    IF count = 0 THEN <<>>
    ELSE <<from + step>> \o Run(from + step, step, count - 1)

RECURSIVE Timestamps(_, _)
Timestamps(blocks, from) ==
    IF blocks = <<>> THEN <<>>
    ELSE LET run == Run(from, Head(blocks)[2], Head(blocks)[1])
         IN run \o Timestamps(Tail(blocks), run[Len(run)])

Payloads == { Timestamps(b, FirstTs) : b \in SeqsUpTo(BlockShapes, MaxBlocks) }

MinWindowPoints == 100          \* if end_idx < 100: continue

\* lines 95-96: df['seconds_from_start'] = df['ts'] - start_ts
SecondsFromStart(ts) == [k \in 1..Len(ts) |-> ts[k] - ts[1]]

\* Series.max() over s[lo..hi], by halving
RECURSIVE MaxIn(_, _, _)
MaxIn(s, lo, hi) ==
    IF lo = hi THEN s[lo]
    ELSE LET mid == (lo + hi) \div 2
             a == MaxIn(s, lo, mid)
             b == MaxIn(s, mid + 1, hi)
         IN IF a >= b THEN a ELSE b
MaxOf(s) == MaxIn(s, 1, Len(s))

\* line 99: total_duration, kept in seconds (minutes_from_start * 60)
TotalDurationSeconds(ts) == MaxOf(SecondsFromStart(ts))

\* line 110: window_min > total_duration
SessionEndedBeforeNever(window_min, ts) == FALSE
SessionEndedBefore(window_min, ts) == 60 * window_min > TotalDurationSeconds(ts)

\* lines 114-115: (df['minutes_from_start'] <= window_min).sum()
CountUpTo(secs, limit) == Cardinality({k \in 1..Len(secs) : secs[k] <= limit})
EndIdx(window_min, ts) == CountUpTo(SecondsFromStart(ts), 60 * window_min)

\* line 117: end_idx < 100
TooFewOffByOne(end_idx) == end_idx <= MinWindowPoints
TooFew(end_idx) == end_idx < MinWindowPoints

\* line 39: window_df = df.iloc[start_idx:end_idx], as positions of ts
WindowSamples(start_idx, end_idx, ts) ==
    {k \in 1..Len(ts) : start_idx < k /\ k <= end_idx}

\* lines 36-78 and 123-129: the row of a window; window_df = df.iloc[0:end_idx]
\* is the first data_points samples (the statistic columns are functions of
\* exactly those samples and are not carried)
WindowRow(window_min, end_idx, ts) ==
    [ window_minutes |-> window_min,
      data_points |-> Cardinality(WindowSamples(0, end_idx, ts)),
      session_duration |-> TotalDurationSeconds(ts) ]

RollingIdle ==
    /\ rf_ts = <<>>
    /\ rf_name_parts = 0
    /\ window_intervals = <<>>
    /\ rf_i = 0
    /\ rolling_features = <<>>
    /\ rf_pc = "idle"

RollingInit ==
    /\ rf_ts \in Payloads
    /\ rf_name_parts \in {2, 3}
    /\ window_intervals \in SeqsUpTo(Cutoffs, MaxCutoffs)
    /\ rf_i = 0
    /\ rolling_features = <<>>
    /\ rf_pc = "start"

\* lines 89-106: load; None for an empty sample list; the unpacking of the
\* file name's parts raises unless there are exactly three
RF_Load ==
    /\ UNCHANGED notRolling
    /\ rf_pc = "start"
    /\ rf_pc' = IF Len(rf_ts) = 0 THEN "returned_none"
                ELSE IF rf_name_parts # 3 THEN "raised"
                ELSE "loop"
    /\ rf_i' = 1
    /\ UNCHANGED <<rf_ts, rf_name_parts, window_intervals, rolling_features>>

\* lines 109-111: the cutoff lies beyond the session's end: break, return
RF_Break ==
    /\ UNCHANGED notRolling
    /\ rf_pc = "loop"
    /\ rf_i <= Len(window_intervals)
    /\ SessionEndedBefore(window_intervals[rf_i], rf_ts)
    /\ rf_pc' = "returned"
    /\ UNCHANGED <<rf_ts, rf_name_parts, window_intervals, rf_i, rolling_features>>

\* lines 113-118: fewer than 100 samples up to the cutoff: continue
RF_Skip ==
    /\ UNCHANGED notRolling
    /\ rf_pc = "loop"
    /\ rf_i <= Len(window_intervals)
    /\ ~SessionEndedBefore(window_intervals[rf_i], rf_ts)
    /\ TooFew(EndIdx(window_intervals[rf_i], rf_ts))
    /\ rf_i' = rf_i + 1
    /\ UNCHANGED <<rf_ts, rf_name_parts, window_intervals, rolling_features, rf_pc>>

\* lines 113-130: the window's row is computed and appended
RF_Window ==
    /\ UNCHANGED notRolling
    /\ rf_pc = "loop"
    /\ rf_i <= Len(window_intervals)
    /\ ~SessionEndedBefore(window_intervals[rf_i], rf_ts)
    /\ ~TooFew(EndIdx(window_intervals[rf_i], rf_ts))
    /\ rolling_features' =
          Append(rolling_features,
                 WindowRow(window_intervals[rf_i],
                           EndIdx(window_intervals[rf_i], rf_ts), rf_ts))
    /\ rf_i' = rf_i + 1
    /\ UNCHANGED <<rf_ts, rf_name_parts, window_intervals, rf_pc>>

\* line 132: the list is exhausted: return rolling_features
RF_Return ==
    /\ UNCHANGED notRolling
    /\ rf_pc = "loop"
    /\ rf_i > Len(window_intervals)
    /\ rf_pc' = "returned"
    /\ UNCHANGED <<rf_ts, rf_name_parts, window_intervals, rf_i, rolling_features>>

RollingNext == RF_Load \/ RF_Break \/ RF_Skip \/ RF_Window \/ RF_Return

(***************************************************************************)
(* data_collector.py : main and collect_data_for_date                      *)
(*                                                                         *)
(* The vendor API is the environment: every request either raises (HTTP    *)
(* error, timeout) or answers.  Activities and athletes are numbered by    *)
(* their position in the answered lists.                                   *)
(***************************************************************************)
NumDates == 2                   \* dates given on the command line
MaxActivities == 2              \* activities the API lists for a date
MaxRoster == 2                  \* athletes the API lists for an activity

\* get_sensor followed by the write of the payload to its file
SensorOutcomes == {"ok", "sensor_error", "write_error"}
Logged(outcome) == IF outcome = "ok" THEN "ok" ELSE "error"

\* lines 96-98: except ...: print, continue - the next roster position
AfterErrorBreak(i, roster) == roster + 1
AfterError(i, roster) == i + 1

CollectIdle ==
    /\ dc_token = FALSE
    /\ dc_d = 0
    /\ dc_activities = 0
    /\ dc_a = 0
    /\ dc_roster = 0
    /\ dc_i = 0
    /\ total_files = 0
    /\ dc_result = 0
    /\ main_total = 0
    /\ dc_rosters = <<>>
    /\ dc_log = <<>>
    /\ dc_unslept = 0
    /\ dc_pc = "idle"

CollectInit ==
    /\ dc_token \in BOOLEAN
    /\ dc_d = 0
    /\ dc_activities = 0
    /\ dc_a = 0
    /\ dc_roster = 0
    /\ dc_i = 0
    /\ total_files = 0
    /\ dc_result = 0
    /\ main_total = 0
    /\ dc_rosters = <<>>
    /\ dc_log = <<>>
    /\ dc_unslept = 0
    /\ dc_pc = "main"

\* main, lines 146-172: RuntimeError without the API key, else start the loop
DC_Main ==
    /\ UNCHANGED notCollect
    /\ dc_pc = "main"
    /\ dc_pc' = IF dc_token THEN "activities" ELSE "config_error"
    /\ dc_d' = 1
    /\ UNCHANGED <<dc_token, dc_activities, dc_a, dc_roster, dc_i, total_files,
                   dc_result, main_total, dc_rosters, dc_log, dc_unslept>>

\* main line 174 and lines 61-67: collect_data_for_date is called for the
\* next date and asks for its activities
DC_GetActivities ==
    /\ UNCHANGED notCollect
    /\ dc_pc = "activities"
    /\ dc_d <= NumDates
    /\ \/ \* get_activities raises: nothing catches it
          /\ dc_pc' = "crashed"
          /\ UNCHANGED <<dc_activities, dc_a, total_files, dc_result,
                         dc_rosters, dc_log>>
       \/ \* no activity: return 0
          /\ dc_activities' = 0
          /\ dc_result' = 0
          /\ dc_rosters' = <<>>
          /\ dc_log' = <<>>
          /\ dc_pc' = "returned"
          /\ UNCHANGED <<dc_a, total_files>>
       \/ \E n \in 1..MaxActivities :
          /\ dc_activities' = n
          /\ dc_a' = 1
          /\ total_files' = 0
          /\ dc_rosters' = <<>>
          /\ dc_log' = <<>>
          /\ dc_pc' = "roster"
          /\ UNCHANGED dc_result
    /\ UNCHANGED <<dc_token, dc_d, dc_roster, dc_i, main_total, dc_unslept>>

\* lines 69-79: the next activity's roster is asked for
DC_GetRoster ==
    /\ UNCHANGED notCollect
    /\ dc_pc = "roster"
    /\ dc_a <= dc_activities
    /\ \/ \* get_roster raises: nothing catches it
          /\ dc_pc' = "crashed"
          /\ UNCHANGED <<dc_a, dc_roster, dc_i, dc_rosters>>
       \/ \* no athletes returned: continue
          /\ dc_rosters' = Append(dc_rosters, 0)
          /\ dc_a' = dc_a + 1
          /\ UNCHANGED <<dc_roster, dc_i, dc_pc>>
       \/ \E m \in 1..MaxRoster :
          /\ dc_rosters' = Append(dc_rosters, m)
          /\ dc_roster' = m
          /\ dc_i' = 1
          /\ dc_pc' = "sensor"
          /\ UNCHANGED dc_a
    /\ UNCHANGED <<dc_token, dc_d, dc_activities, total_files, dc_result,
                   main_total, dc_log, dc_unslept>>

\* lines 81-98: the sensor stream of the next athlete is requested and written
DC_Sensor ==
    /\ UNCHANGED notCollect
    /\ dc_pc = "sensor"
    /\ dc_i <= dc_roster
    /\ \E outcome \in SensorOutcomes :
          /\ dc_log' = Append(dc_log, [act |-> dc_a, ath |-> dc_i,
                                       outcome |-> Logged(outcome)])
          /\ IF outcome = "ok"
                THEN /\ total_files' = total_files + 1
                     /\ dc_pc' = "sleep"
                     /\ UNCHANGED dc_i
                ELSE /\ dc_i' = AfterError(dc_i, dc_roster)
                     /\ UNCHANGED <<total_files, dc_pc>>
    /\ dc_unslept' = dc_unslept + 1
    /\ UNCHANGED <<dc_token, dc_d, dc_activities, dc_a, dc_roster, dc_result,
                   main_total, dc_rosters>>

\* lines 100-101: time.sleep(0.5), then the next athlete
DC_Sleep ==
    /\ UNCHANGED notCollect
    /\ dc_pc = "sleep"
    /\ dc_unslept' = 0
    /\ dc_i' = dc_i + 1
    /\ dc_pc' = "sensor"
    /\ UNCHANGED <<dc_token, dc_d, dc_activities, dc_a, dc_roster, total_files,
                   dc_result, main_total, dc_rosters, dc_log>>

\* the roster is exhausted: the next activity
DC_RosterDone ==
    /\ UNCHANGED notCollect
    /\ dc_pc = "sensor"
    /\ dc_i > dc_roster
    /\ dc_a' = dc_a + 1
    /\ dc_pc' = "roster"
    /\ UNCHANGED <<dc_token, dc_d, dc_activities, dc_roster, dc_i, total_files,
                   dc_result, main_total, dc_rosters, dc_log, dc_unslept>>

\* line 103: return total_files
DC_Return ==
    /\ UNCHANGED notCollect
    /\ dc_pc = "roster"
    /\ dc_a > dc_activities
    /\ dc_result' = total_files
    /\ dc_pc' = "returned"
    /\ UNCHANGED <<dc_token, dc_d, dc_activities, dc_a, dc_roster, dc_i,
                   total_files, main_total, dc_rosters, dc_log, dc_unslept>>

\* main lines 173-175: total_files += files_collected, the next date
DC_NextDate ==
    /\ UNCHANGED notCollect
    /\ dc_pc = "returned"
    /\ main_total' = main_total + dc_result
    /\ dc_d' = dc_d + 1
    /\ dc_pc' = "activities"
    /\ UNCHANGED <<dc_token, dc_activities, dc_a, dc_roster, dc_i, total_files,
                   dc_result, dc_rosters, dc_log, dc_unslept>>

\* main lines 177-186: the summary
DC_Summary ==
    /\ UNCHANGED notCollect
    /\ dc_pc = "activities"
    /\ dc_d > NumDates
    /\ dc_pc' = "done"
    /\ UNCHANGED <<dc_token, dc_d, dc_activities, dc_a, dc_roster, dc_i,
                   total_files, dc_result, main_total, dc_rosters, dc_log,
                   dc_unslept>>

CollectNext ==
    \/ DC_Main \/ DC_GetActivities \/ DC_GetRoster \/ DC_Sensor \/ DC_Sleep
    \/ DC_RosterDone \/ DC_Return \/ DC_NextDate \/ DC_Summary

(***************************************************************************)
(* lightweight_collector.py : collect_multiple_dates and                   *)
(* collect_date_lightweight (save_raw is left at its default, False)       *)
(***************************************************************************)
LwMaxActivities == 1            \* activities the API lists for a date
LwMaxRoster == 1                \* athletes the API lists for an activity
LwArgvs == { <<1>>, <<1, 1>>, <<1, 2>> }    \* sys.argv[1:]

\* get_sensor followed by extract_features: "error" one of them raises,
\* "none" the payload is an empty list, "empty" no samples, "samples" some
LwOutcomes == {"error", "none", "empty", "samples"}

EmptyFields == 6                \* keys of the dict of a session without samples
FullFields == 23                \* keys of the dict of a session with samples

\* lines 55-123: the dict extract_features returns
Features(date, act, ath, outcome) ==
    [ date |-> date, activity_id |-> act, athlete_id |-> ath,
      data_points |-> IF outcome = "samples" THEN 1 ELSE 0,
      fields |-> IF outcome = "samples" THEN FullFields ELSE EmptyFields ]

\* line 177: pd.DataFrame(all_features): the columns are the union of the
\* dicts' keys, and every row is written with all of them
FrameWidth(features) ==
    IF \E k \in 1..Len(features) : features[k].fields = FullFields
        THEN FullFields ELSE EmptyFields
FrameRows(features) ==
    [k \in 1..Len(features) |-> [features[k] EXCEPT !.fields = FrameWidth(features)]]

NoCsv == [exists |-> FALSE, header |-> 0, rows |-> <<>>]

\* lines 180-183: append without header to an existing file, else create it
SaveCsvSkipPresent(csv, features) ==
    IF csv.exists
        THEN [csv EXCEPT !.rows = @ \o
                 SelectSeq(FrameRows(features),
                           LAMBDA r : \A k \in 1..Len(csv.rows) : csv.rows[k] # r)]
        ELSE [exists |-> TRUE, header |-> FrameWidth(features),
              rows |-> FrameRows(features)]
SaveCsv(csv, features) ==
    IF csv.exists
        THEN [csv EXCEPT !.rows = @ \o FrameRows(features)]
        ELSE [exists |-> TRUE, header |-> FrameWidth(features),
              rows |-> FrameRows(features)]

LightIdle ==
    /\ lw_token = FALSE
    /\ lw_argv = <<>>
    /\ lw_d = 0
    /\ lw_activities = 0
    /\ lw_a = 0
    /\ lw_roster = 0
    /\ lw_i = 0
    /\ all_features = <<>>
    /\ lw_result = <<>>
    /\ total_sessions = 0
    /\ lw_csv = NoCsv
    /\ lw_requests = 0
    /\ lw_unslept = 0
    /\ lw_pc = "idle"

LightInit ==
    /\ lw_token \in BOOLEAN
    /\ lw_argv \in LwArgvs
    /\ lw_d = 0
    /\ lw_activities = 0
    /\ lw_a = 0
    /\ lw_roster = 0
    /\ lw_i = 0
    /\ all_features = <<>>
    /\ lw_result = <<>>
    /\ total_sessions = 0
    /\ lw_csv = NoCsv
    /\ lw_requests = 0
    /\ lw_unslept = 0
    /\ lw_pc = "main"

\* lines 233-245 and 190-204: no check of TOKEN; the loop over dates starts
LW_Main ==
    /\ UNCHANGED notLight
    /\ lw_pc = "main"
    /\ lw_d' = 1
    /\ lw_pc' = "activities"
    /\ UNCHANGED <<lw_token, lw_argv, lw_activities, lw_a, lw_roster, lw_i,
                   all_features, lw_result, total_sessions, lw_csv, lw_requests,
                   lw_unslept>>

\* lines 206 and 133-140: collect_date_lightweight asks for the activities;
\* TOKEN only goes into the request's header (line 27), set or not
LW_GetActivities ==
    /\ UNCHANGED notLight
    /\ lw_pc = "activities"
    /\ lw_d <= Len(lw_argv)
    /\ lw_requests' = lw_requests + 1
    /\ \/ \* get_activities raises: nothing catches it
          /\ lw_pc' = "crashed"
          /\ UNCHANGED <<lw_activities, lw_a, all_features, lw_result>>
       \/ \* no activity: return []
          /\ lw_activities' = 0
          /\ lw_result' = <<>>
          /\ lw_pc' = "returned"
          /\ UNCHANGED <<lw_a, all_features>>
       \/ \E n \in 1..LwMaxActivities :
          /\ lw_activities' = n
          /\ lw_a' = 1
          /\ all_features' = <<>>
          /\ lw_pc' = "roster"
          /\ UNCHANGED lw_result
    /\ UNCHANGED <<lw_token, lw_argv, lw_d, lw_roster, lw_i, total_sessions,
                   lw_csv, lw_unslept>>

\* lines 142-149: the next activity's roster is asked for
LW_GetRoster ==
    /\ UNCHANGED notLight
    /\ lw_pc = "roster"
    /\ lw_a <= lw_activities
    /\ lw_requests' = lw_requests + 1
    /\ \/ \* get_roster raises: nothing catches it
          /\ lw_pc' = "crashed"
          /\ UNCHANGED <<lw_a, lw_roster, lw_i>>
       \/ \* empty roster: continue
          /\ lw_a' = lw_a + 1
          /\ UNCHANGED <<lw_roster, lw_i, lw_pc>>
       \/ \E m \in 1..LwMaxRoster :
          /\ lw_roster' = m
          /\ lw_i' = 1
          /\ lw_pc' = "sensor"
          /\ UNCHANGED lw_a
    /\ UNCHANGED <<lw_token, lw_argv, lw_d, lw_activities, all_features,
                   lw_result, total_sessions, lw_csv, lw_unslept>>

\* lines 151-171: the sensor stream is requested and its features extracted;
\* an exception is printed and the flow goes on to the sleep
LW_Sensor ==
    /\ UNCHANGED notLight
    /\ lw_pc = "sensor"
    /\ lw_i <= lw_roster
    /\ \E outcome \in LwOutcomes :
          all_features' =
              IF outcome \in {"empty", "samples"}
                  THEN Append(all_features,
                              Features(lw_argv[lw_d], lw_a, lw_i, outcome))
                  ELSE all_features
    /\ lw_requests' = lw_requests + 1
    /\ lw_unslept' = lw_unslept + 1
    /\ lw_pc' = "sleep"
    /\ UNCHANGED <<lw_token, lw_argv, lw_d, lw_activities, lw_a, lw_roster, lw_i,
                   lw_result, total_sessions, lw_csv>>

\* line 173: time.sleep(0.5), then the next athlete
LW_Sleep ==
    /\ UNCHANGED notLight
    /\ lw_pc = "sleep"
    /\ lw_unslept' = 0
    /\ lw_i' = lw_i + 1
    /\ lw_pc' = "sensor"
    /\ UNCHANGED <<lw_token, lw_argv, lw_d, lw_activities, lw_a, lw_roster,
                   all_features, lw_result, total_sessions, lw_csv, lw_requests>>

\* the roster is exhausted: the next activity
LW_RosterDone ==
    /\ UNCHANGED notLight
    /\ lw_pc = "sensor"
    /\ lw_i > lw_roster
    /\ lw_a' = lw_a + 1
    /\ lw_pc' = "roster"
    /\ UNCHANGED <<lw_token, lw_argv, lw_d, lw_activities, lw_roster, lw_i,
                   all_features, lw_result, total_sessions, lw_csv, lw_requests,
                   lw_unslept>>

\* lines 175-187: save the date's features to the csv, return them
LW_Save ==
    /\ UNCHANGED notLight
    /\ lw_pc = "roster"
    /\ lw_a > lw_activities
    /\ lw_csv' = IF all_features # <<>> THEN SaveCsv(lw_csv, all_features)
                 ELSE lw_csv
    /\ lw_result' = all_features
    /\ lw_pc' = "returned"
    /\ UNCHANGED <<lw_token, lw_argv, lw_d, lw_activities, lw_a, lw_roster, lw_i,
                   all_features, total_sessions, lw_requests, lw_unslept>>

\* lines 204-217: total_sessions += len(sessions), the next date
LW_NextDate ==
    /\ UNCHANGED notLight
    /\ lw_pc = "returned"
    /\ total_sessions' = total_sessions + Len(lw_result)
    /\ lw_d' = lw_d + 1
    /\ lw_pc' = "activities"
    /\ UNCHANGED <<lw_token, lw_argv, lw_activities, lw_a, lw_roster, lw_i,
                   all_features, lw_result, lw_csv, lw_requests, lw_unslept>>

\* lines 219-230: the summary; Path(output_csv).stat() raises when no date
\* has created the csv
LW_Summary ==
    /\ UNCHANGED notLight
    /\ lw_pc = "activities"
    /\ lw_d > Len(lw_argv)
    /\ lw_pc' = IF lw_csv.exists THEN "done" ELSE "crashed"
    /\ UNCHANGED <<lw_token, lw_argv, lw_d, lw_activities, lw_a, lw_roster, lw_i,
                   all_features, lw_result, total_sessions, lw_csv, lw_requests,
                   lw_unslept>>

LightNext ==
    \/ LW_Main \/ LW_GetActivities \/ LW_GetRoster \/ LW_Sensor \/ LW_Sleep
    \/ LW_RosterDone \/ LW_Save \/ LW_NextDate \/ LW_Summary

(***************************************************************************)
(* auto_detect_injuries.py : update_injury_dates_csv                       *)
(***************************************************************************)
MaxInjuryRows == 2              \* rows of injury_dates.csv
MaxDetected == 2                \* detected entries of one date

\* athlete names, as their characters
NameUnknown == <<"U", "n", "k", "n", "o", "w", "n">>
NameUnknownA == NameUnknown \o <<" ", "A">>
NameUnknownB == NameUnknown \o <<" ", "B">>
NameUnknownBA == NameUnknown \o <<" ", "B", "A">>
NameAl == <<"A", "l">>
NameBo == <<"B", "o">>
RowNames == {NameUnknown, NameUnknownA, NameUnknownB, NameUnknownBA, NameAl}

\* Python's  pat in name  on strings
Contains(name, pat) ==
    \E i \in 1..(Len(name) - Len(pat) + 1) :
        SubSeq(name, i, i + Len(pat) - 1) = pat

ManualNotes == <<"manual">>
InjuryRows ==
    [ injury_date : Dates, athlete_name : RowNames,
      injury_type : {"strain"}, notes : {ManualNotes} ]

\* the athlete_name of a row whose cell in the csv is empty: read_csv gives
\* the missing value (a float), which is no character sequence
NaNName == <<"NaN">>

\* the entries detect_injuries_on_date returns, as far as they are read here;
\* extract_features gives a session without name fields the name '', which
\* is a missing value once lightweight_features.csv is read
DetectedEntries ==
    { [athlete_name |-> NameAl, reason |-> "NO DATA"],
      [athlete_name |-> NameBo, reason |-> "EARLY EXIT"],
      [athlete_name |-> NaNName, reason |-> "MINIMAL DATA"] }

\* the lists of one date: one entry for each flagged session
DetectedLists ==
    {d \in SeqsUpTo(DetectedEntries, MaxDetected) :
        \A i, j \in 1..Len(d) : i # j => d[i] # d[j]}

\* line 87: read_csv gives an empty athlete_name cell the missing value
ReadInjuryCsv(csv) ==
    [k \in 1..Len(csv) |->
        [csv[k] EXCEPT !.athlete_name = IF @ = <<>> THEN NaNName ELSE @]]

\* line 146: to_csv writes a missing value as an empty cell
WriteInjuryCsv(frame) ==
    [k \in 1..Len(frame) |->
        [frame[k] EXCEPT !.athlete_name = IF @ = NaNName THEN <<>> ELSE @]]

\* line 100: 'Unknown' not in current_name raises on a missing value
NameTestRaises(name) == name = NaNName

\* line 100: 'Unknown' not in current_name
IsPlaceholderAnyName(name) == TRUE
IsPlaceholder(name) == Contains(name, NameUnknown)

\* lines 111-138: which entry of the date's list the row receives
PickCandidateFirst(name, n) == 1
PickCandidate(name, n) ==
    IF n = 1 THEN 1
    ELSE IF Contains(name, <<"A">>) THEN 1
    ELSE IF Contains(name, <<"B">>) THEN 2
    ELSE 1

\* lines 136-140: the branch that writes the WARNING text
WarnsOnAnyName(name, n) == n > 1
Warns(name, n) ==
    /\ n > 1
    /\ ~Contains(name, <<"A">>)
    /\ ~Contains(name, <<"B">>)

\* lines 114, 125, 132, 140: the notes written
NotesFor(detected, name, n) ==
    IF Warns(name, n) THEN <<detected.reason, "WARNING", n>>
    ELSE <<detected.reason>>

\* lines 96-143: the body of the loop for one row
RowUpdated(row) ==
    /\ IsPlaceholder(row.athlete_name)
    /\ detected_injuries[row.injury_date] # <<>>
UpdateRow(row) ==
    IF ~RowUpdated(row) THEN row
    ELSE LET date_injuries == detected_injuries[row.injury_date]
             n == Len(date_injuries)
             detected == date_injuries[PickCandidate(row.athlete_name, n)]
         IN [row EXCEPT !.athlete_name = detected.athlete_name,
                        !.notes = NotesFor(detected, row.athlete_name, n)]

UpdateIdle ==
    /\ injury_dates_csv = <<>>
    /\ detected_injuries = <<>>
    /\ df_injuries = <<>>
    /\ ui_before = <<>>
    /\ ui_idx = 0
    /\ updated_count = 0
    /\ ui_calls = 0
    /\ ui_pc = "idle"

UpdateInit ==
    /\ injury_dates_csv \in SeqsUpTo(InjuryRows, MaxInjuryRows)
    /\ detected_injuries \in [Dates -> DetectedLists]
    /\ df_injuries = <<>>
    /\ ui_before = <<>>
    /\ ui_idx = 0
    /\ updated_count = 0
    /\ ui_calls = 1
    /\ ui_pc = "start"

\* lines 87-93: read the csv
UI_Read ==
    /\ UNCHANGED notUpdate
    /\ ui_pc = "start"
    /\ df_injuries' = ReadInjuryCsv(injury_dates_csv)
    /\ ui_before' = ReadInjuryCsv(injury_dates_csv)
    /\ ui_idx' = 1
    /\ updated_count' = 0
    /\ ui_pc' = "rows"
    /\ UNCHANGED <<injury_dates_csv, detected_injuries, ui_calls>>

\* lines 95-143: one row of the iterrows loop
UI_Row ==
    /\ UNCHANGED notUpdate
    /\ ui_pc = "rows"
    /\ ui_idx <= Len(df_injuries)
    /\ IF NameTestRaises(df_injuries[ui_idx].athlete_name)
          THEN /\ ui_pc' = "crashed"
               /\ UNCHANGED <<df_injuries, updated_count, ui_idx>>
          ELSE /\ df_injuries' = [df_injuries EXCEPT ![ui_idx] = UpdateRow(@)]
               /\ updated_count' = IF RowUpdated(df_injuries[ui_idx])
                                       THEN updated_count + 1 ELSE updated_count
               /\ ui_idx' = ui_idx + 1
               /\ UNCHANGED ui_pc
    /\ UNCHANGED <<injury_dates_csv, detected_injuries, ui_before, ui_calls>>

\* lines 145-153: save the frame over the csv, return it
UI_Save ==
    /\ UNCHANGED notUpdate
    /\ ui_pc = "rows"
    /\ ui_idx > Len(df_injuries)
    /\ injury_dates_csv' = WriteInjuryCsv(df_injuries)
    /\ ui_pc' = "returned"
    /\ UNCHANGED <<detected_injuries, df_injuries, ui_before, ui_idx,
                   updated_count, ui_calls>>

\* the function is called once more, with the same detection results, on
\* the csv the first call saved
UI_CallAgain ==
    /\ UNCHANGED notUpdate
    /\ ui_pc = "returned"
    /\ ui_calls = 1
    /\ ui_calls' = 2
    /\ ui_pc' = "start"
    /\ UNCHANGED <<injury_dates_csv, detected_injuries, df_injuries, ui_before,
                   ui_idx, updated_count>>

UpdateNext == UI_Read \/ UI_Row \/ UI_Save

ReapplyNext == UI_Read \/ UI_Row \/ UI_Save \/ UI_CallAgain

(***************************************************************************)
(* create_labeled_dataset.py : create_labeled_dataset                      *)
(***************************************************************************)
MaxFeatureRows == 3             \* rows of rolling_window_features.csv

\* the columns of a feature row the labelling reads, and one that it carries
WindowFeatureRows ==
    [ athlete_name : {NameAl, NameBo}, date : Dates, window_minutes : {5} ]
InjuryRecords == [ athlete_name : {NameAl, NameBo}, injury_date : Dates ]

\* line 34: key = (row['athlete_name'], row['injury_date'])
InjuryKey(row) == <<row.athlete_name, row.injury_date>>
\* line 39: (row['athlete_name'], row['date'])
FeatureKeyNameOnly(row) == <<row.athlete_name, 1>>
FeatureKey(row) == <<row.athlete_name, row.date>>

\* lines 44-47: features_df['injured'].map({True: 'injured', False: 'normal'})
RiskLevelOf(injured) == IF injured THEN "injured" ELSE "normal"

\* lines 38-47: the two columns added to a row
Labelled(row, lookup) ==
    LET injured == FeatureKey(row) \in lookup
    IN [ athlete_name |-> row.athlete_name, date |-> row.date,
         window_minutes |-> row.window_minutes,
         injured |-> injured, risk_level |-> RiskLevelOf(injured) ]

\* a cell that writes the label as a number
BoolTextAsNumber(b) == IF b THEN "1" ELSE "0"

\* line 73: to_csv writes a boolean cell as str(value)
BoolText(b) == IF b THEN "True" ELSE "False"

\* line 73: to_csv gives the injured column its text; a risk_level is written
\* as it is (it holds no separator, quote or line break), and so are the
\* columns the labelling only carries
ToCsv(frame) ==
    [k \in 1..Len(frame) |-> [frame[k] EXCEPT !.injured = BoolText(@)]]

\* train_model.py line 26: the cell texts read_csv takes for booleans
TrueValues == {"True", "TRUE", "true"}
FalseValues == {"False", "FALSE", "false"}

\* train_model.py line 26: the cell texts read_csv takes for a missing value
NaValues == {"", "#N/A", "#N/A N/A", "#NA", "-1.#IND", "-1.#QNAN", "-NaN", "-nan",
             "1.#IND", "1.#QNAN", "<NA>", "N/A", "NA", "NULL", "NaN", "None",
             "n/a", "nan", "null"}

\* a cell as read: a boolean, a text or a missing value
BoolCell(b) == [type |-> "bool", b |-> b, text |-> ""]
TextCell(t) == [type |-> "str", b |-> FALSE, text |-> t]
NaCell == [type |-> "nan", b |-> FALSE, text |-> ""]

\* train_model.py line 26: read_csv makes a column boolean when every cell of
\* it is a true or a false value; otherwise a cell stays the text it is
\* (the texts here are no numbers), or is a missing value
ReadColumn(cells) ==
    IF \A k \in 1..Len(cells) : cells[k] \in TrueValues \cup FalseValues
       THEN [k \in 1..Len(cells) |-> BoolCell(cells[k] \in TrueValues)]
       ELSE [k \in 1..Len(cells) |->
                IF cells[k] \in NaValues THEN NaCell ELSE TextCell(cells[k])]

\* train_model.py lines 26-29: the injured and risk_level columns of
\* df = pd.read_csv(config_dir / 'labeled_training_data.csv')
ReadLabels(csv) ==
    LET injured == ReadColumn([k \in 1..Len(csv) |-> csv[k].injured])
        risk == ReadColumn([k \in 1..Len(csv) |-> csv[k].risk_level])
    IN  [k \in 1..Len(csv) |-> [injured |-> injured[k], risk_level |-> risk[k]]]

LabelIdle ==
    /\ rolling_csv = <<>>
    /\ ld_injury_csv = <<>>
    /\ features_df = <<>>
    /\ injuries_df = <<>>
    /\ injury_lookup = {}
    /\ ld_j = 0
    /\ labeled_csv = <<>>
    /\ ld_pc = "idle"

LabelInit ==
    /\ rolling_csv \in SeqsUpTo(WindowFeatureRows, MaxFeatureRows)
    /\ ld_injury_csv \in SeqsUpTo(InjuryRecords, MaxInjuryRows)
    /\ features_df = <<>>
    /\ injuries_df = <<>>
    /\ injury_lookup = {}
    /\ ld_j = 0
    /\ labeled_csv = <<>>
    /\ ld_pc = "start"

\* lines 24-32: read the two csv files; process_all_sessions writes a file
\* without columns when it has no row, and read_csv raises on it
LD_Read ==
    /\ UNCHANGED notLabel
    /\ ld_pc = "start"
    /\ IF rolling_csv = <<>>
          THEN /\ ld_pc' = "crashed"
               /\ UNCHANGED <<features_df, injuries_df, injury_lookup, ld_j>>
          ELSE /\ features_df' = rolling_csv
               /\ injuries_df' = ld_injury_csv
               /\ injury_lookup' = {}
               /\ ld_j' = 1
               /\ ld_pc' = "lookup"
    /\ UNCHANGED <<rolling_csv, ld_injury_csv, labeled_csv>>

\* lines 33-35: one injury record goes into the lookup
LD_AddKey ==
    /\ UNCHANGED notLabel
    /\ ld_pc = "lookup"
    /\ ld_j <= Len(injuries_df)
    /\ injury_lookup' = injury_lookup \cup {InjuryKey(injuries_df[ld_j])}
    /\ ld_j' = ld_j + 1
    /\ UNCHANGED <<rolling_csv, ld_injury_csv, features_df, injuries_df,
                   labeled_csv, ld_pc>>

\* lines 37-47: the injured and risk_level columns
LD_Label ==
    /\ UNCHANGED notLabel
    /\ ld_pc = "lookup"
    /\ ld_j > Len(injuries_df)
    /\ features_df' =
           [k \in 1..Len(features_df) |-> Labelled(features_df[k], injury_lookup)]
    /\ ld_pc' = "save"
    /\ UNCHANGED <<rolling_csv, ld_injury_csv, injuries_df, injury_lookup, ld_j,
                   labeled_csv>>

\* lines 71-84: save the frame, return it
LD_Save ==
    /\ UNCHANGED notLabel
    /\ ld_pc = "save"
    /\ labeled_csv' = ToCsv(features_df)
    /\ ld_pc' = "returned"
    /\ UNCHANGED <<rolling_csv, ld_injury_csv, features_df, injuries_df,
                   injury_lookup, ld_j>>

LabelNext == LD_Read \/ LD_AddKey \/ LD_Label \/ LD_Save

(***************************************************************************)
(* process_injury_dates.py : parse_injury_dates, create_date_ranges,       *)
(* get_available_dates, identify_missing_dates                             *)
(***************************************************************************)
MaxLookback == 8                \* largest lookback_days argument

\* the calendar: day 0 is 2024-12-01
MonthTable ==
    << [year |-> 2024, month |-> 12, days |-> 31],
       [year |-> 2025, month |-> 1, days |-> 31],
       [year |-> 2025, month |-> 2, days |-> 28],
       [year |-> 2025, month |-> 3, days |-> 31] >>

RECURSIVE YmdFrom(_, _)
YmdFrom(n, mi) ==
    IF n < MonthTable[mi].days
        THEN [year |-> MonthTable[mi].year, month |-> MonthTable[mi].month,
              day |-> n + 1]
        ELSE YmdFrom(n - MonthTable[mi].days, mi + 1)

RECURSIVE DaysBefore(_)
DaysBefore(mi) == IF mi = 1 THEN 0 ELSE MonthTable[mi - 1].days + DaysBefore(mi - 1)

DigitChars == <<"0", "1", "2", "3", "4", "5", "6", "7", "8", "9">>
TwoDigits(k) == <<DigitChars[(k \div 10) + 1], DigitChars[(k % 10) + 1]>>
DigitValue(c) == CHOOSE k \in 0..9 : DigitChars[k + 1] = c
Number(chars) ==
    IF Len(chars) = 2 THEN 10 * DigitValue(chars[1]) + DigitValue(chars[2])
    ELSE 1000 * DigitValue(chars[1]) + 100 * DigitValue(chars[2])
             + 10 * DigitValue(chars[3]) + DigitValue(chars[4])

\* lines 66-67: strftime('%Y-%m-%d') of a day
Strftime(n) ==
    LET ymd == YmdFrom(n, 1)
    IN TwoDigits(ymd.year \div 100) \o TwoDigits(ymd.year % 100) \o <<"-">>
           \o TwoDigits(ymd.month) \o <<"-">> \o TwoDigits(ymd.day)

\* line 21: pd.to_datetime of a 'YYYY-MM-DD' string
ToDatetime(str) ==
    LET y == Number(SubSeq(str, 1, 4))
        m == Number(SubSeq(str, 6, 7))
        d == Number(SubSeq(str, 9, 10))
        mi == CHOOSE i \in 1..Len(MonthTable) :
                  MonthTable[i].year = y /\ MonthTable[i].month = m
    IN DaysBefore(mi) + d - 1

\* the injury dates of the csv: 2025-01-05 and 2025-01-08
InjuryDateStrings == {Strftime(35), Strftime(38)}
InjuryCsvRows ==
    [ athlete_name : {NameAl, NameBo}, injury_date : InjuryDateStrings,
      injury_type : {"strain"} ]

\* the entries of the data directory: date folders with the athletes whose
\* sessions they hold (one readable file DATE_athleteID_activityID.json each)
\* and the number of their other json files, a session file lying directly
\* in the directory, and a folder that is not a date
DirEntry(name, is_dir, athletes) ==
    [name |-> name, is_dir |-> is_dir, athletes |-> athletes, unreadable |-> 0]
RawName == <<"r", "a", "w">>
FlatFileName == Strftime(35) \o <<"_", "1", "_", "1", ".", "j", "s", "o", "n">>
DataDirs ==
    { a \cup c \cup d :
        a \in { {}, {DirEntry(Strftime(35), TRUE, {})},
                {DirEntry(Strftime(35), TRUE, {NameAl})},
                {DirEntry(Strftime(35), TRUE, {NameAl, NameBo})},
                {[DirEntry(Strftime(35), TRUE, {NameAl}) EXCEPT !.unreadable = 1]} },
        c \in { {}, {DirEntry(FlatFileName, FALSE, {NameAl})} },
        d \in { {}, {DirEntry(RawName, TRUE, {})} } }

\* lines 57-62: the risk tier of a day i days before the injury
RiskLevelShortHigh(i) ==
    IF i = 0 THEN "injury_day"
    ELSE IF i < 3 THEN "high_risk"
    ELSE "moderate_risk"
RiskLevel(i) ==
    IF i = 0 THEN "injury_day"
    ELSE IF i <= 3 THEN "high_risk"
    ELSE "moderate_risk"

\* lines 64-71: one label row
LabelRow(injury, i) ==
    [ athlete_name |-> injury.athlete_name,
      date |-> Strftime(injury.injury_date - i),
      injury_date |-> Strftime(injury.injury_date),
      days_until_injury |-> i,
      risk_level |-> RiskLevel(i),
      injury_type |-> injury.injury_type ]

\* line 53: for i in range(lookback_days, -1, -1)
ExpandInjury(injury, lookback) ==
    [k \in 1..(lookback + 1) |-> LabelRow(injury, lookback + 1 - k)]

\* line 37: date_folder.is_dir() and date_folder.name.startswith('202')
IsDateFolderOfThe2030s(entry) ==
    /\ entry.is_dir
    /\ Len(entry.name) >= 3
    /\ SubSeq(entry.name, 1, 3) = <<"2", "0", "3">>
IsDateFolder(entry) ==
    /\ entry.is_dir
    /\ Len(entry.name) >= 3
    /\ SubSeq(entry.name, 1, 3) = <<"2", "0", "2">>

\* sorted(): 'YYYY-MM-DD' strings sort in the order of their days
RECURSIVE SortedDates(_)
SortedDates(S) ==
    IF S = {} THEN <<>>
    ELSE LET first == CHOOSE s \in S : \A t \in S : ToDatetime(s) <= ToDatetime(t)
         IN <<first>> \o SortedDates(S \ {first})

ProcessIdle ==
    /\ pj_injury_csv = <<>>
    /\ lookback_days = 0
    /\ data_dir = {}
    /\ injury_df = <<>>
    /\ pj_k = 0
    /\ date_ranges = <<>>
    /\ available_dates = <<>>
    /\ missing_dates = <<>>
    /\ labeled_sessions = <<>>
    /\ pj_pc = "idle"

ProcessInit ==
    /\ pj_injury_csv \in SeqsUpTo(InjuryCsvRows, MaxInjuryRows)
    /\ lookback_days \in 0..MaxLookback
    /\ data_dir \in DataDirs
    /\ injury_df = <<>>
    /\ pj_k = 0
    /\ date_ranges = <<>>
    /\ available_dates = <<>>
    /\ missing_dates = <<>>
    /\ labeled_sessions = <<>>
    /\ pj_pc = "start"

\* lines 16-29: read the csv, parse the injury dates
PJ_Parse ==
    /\ UNCHANGED notProcess
    /\ pj_pc = "start"
    /\ injury_df' = [k \in 1..Len(pj_injury_csv) |->
                        [pj_injury_csv[k] EXCEPT
                            !.injury_date = ToDatetime(@)]]
    /\ pj_k' = 1
    /\ date_ranges' = <<>>
    /\ pj_pc' = "ranges"
    /\ UNCHANGED <<pj_injury_csv, lookback_days, data_dir, available_dates,
                   missing_dates, labeled_sessions>>

\* lines 48-71: one injury record is expanded into its label rows
PJ_Expand ==
    /\ UNCHANGED notProcess
    /\ pj_pc = "ranges"
    /\ pj_k <= Len(injury_df)
    /\ date_ranges' = date_ranges \o ExpandInjury(injury_df[pj_k], lookback_days)
    /\ pj_k' = pj_k + 1
    /\ UNCHANGED <<pj_injury_csv, lookback_days, data_dir, injury_df,
                   available_dates, missing_dates,
                   labeled_sessions, pj_pc>>

\* lines 73 and 233-236: the frame of the label rows; without a row it has no
\* column and main's date_ranges_df['risk_level'] raises
PJ_Ranges ==
    /\ UNCHANGED notProcess
    /\ pj_pc = "ranges"
    /\ pj_k > Len(injury_df)
    /\ pj_pc' = IF date_ranges = <<>> THEN "crashed" ELSE "available"
    /\ UNCHANGED <<pj_injury_csv, lookback_days, data_dir, injury_df, pj_k,
                   date_ranges, available_dates, missing_dates,
                   labeled_sessions>>

\* lines 32-40: get_available_dates
PJ_Available ==
    /\ UNCHANGED notProcess
    /\ pj_pc = "available"
    /\ available_dates' =
           SortedDates({entry.name : entry \in {x \in data_dir : IsDateFolder(x)}})
    /\ pj_pc' = "missing"
    /\ UNCHANGED <<pj_injury_csv, lookback_days, data_dir, injury_df, pj_k,
                   date_ranges, missing_dates, labeled_sessions>>

\* lines 76-99: identify_missing_dates
PJ_Missing ==
    /\ UNCHANGED notProcess
    /\ pj_pc = "missing"
    /\ LET needed_dates == {date_ranges[k].date : k \in 1..Len(date_ranges)}
           available == {available_dates[k] : k \in 1..Len(available_dates)}
       IN missing_dates' = SortedDates(needed_dates \ available)
    /\ pj_pc' = "done"
    /\ UNCHANGED <<pj_injury_csv, lookback_days, data_dir, injury_df, pj_k,
                   date_ranges, available_dates, labeled_sessions>>

\* date_folder.glob('*.json'): the files of a folder in any order
GlobOrders(S) ==
    {q \in [1..Cardinality(S) -> S] :
        \A i, j \in 1..Cardinality(S) : q[i] = q[j] => i = j}

\* lines 135-142: the row of one session file
Session(date_str, athlete_name) ==
    [date |-> date_str, athlete_name |-> athlete_name]

\* lines 108-142: the session rows, folder after folder in sorted order; a
\* file whose name has not three tokens or whose json cannot be read gives
\* no row (lines 117-118, 132-133), so only the readable files appear
RECURSIVE ScanFolders(_, _)
ScanFolders(names, dir) ==
    IF names = <<>> THEN {<<>>}
    ELSE LET folder == CHOOSE e \in dir : e.is_dir /\ e.name = Head(names)
         IN { [k \in 1..Len(q) |-> Session(folder.name, q[k])] \o rest :
                  q \in GlobOrders(folder.athletes),
                  rest \in ScanFolders(Tail(names), dir) }

\* lines 147-151: sessions_df.merge(date_ranges_df, on=['date',
\* 'athlete_name'], how='left'): every session row once per label row of its
\* key, in the order of the label rows, and once with empty label columns
\* when no label row has its key
MergedRow(session, label) ==
    [ date |-> session.date, athlete_name |-> session.athlete_name,
      injury_date |-> label.injury_date,
      days_until_injury |-> label.days_until_injury,
      risk_level |-> label.risk_level ]
NoLabel == [injury_date |-> <<>>, days_until_injury |-> <<>>, risk_level |-> <<>>]
LabelCells(row) ==
    [ injury_date |-> <<row.injury_date>>,
      days_until_injury |-> <<row.days_until_injury>>,
      risk_level |-> <<row.risk_level>> ]
SameKey(session, row) ==
    row.date = session.date /\ row.athlete_name = session.athlete_name
RECURSIVE MergeLeft(_, _)
MergeLeft(sessions, ranges) ==
    IF sessions = <<>> THEN <<>>
    ELSE LET session == Head(sessions)
             matches == SelectSeq(ranges, LAMBDA row : SameKey(session, row))
             rows == IF matches = <<>> THEN << MergedRow(session, NoLabel) >>
                     ELSE [k \in 1..Len(matches) |->
                              MergedRow(session, LabelCells(matches[k]))]
         IN rows \o MergeLeft(Tail(sessions), ranges)

\* lines 154-155: fillna('normal') and fillna(-1)
FillLabels(row) ==
    [row EXCEPT !.risk_level = IF @ = <<>> THEN "normal" ELSE @[1],
                !.days_until_injury = IF @ = <<>> THEN -1 ELSE @[1]]

\* lines 246-251 and 102-168: main calls match_sessions_to_labels when a date
\* folder exists and saves its frame; without a session row the frame of the
\* sessions has no column and the merge raises KeyError
PJ_Match ==
    /\ UNCHANGED notProcess
    /\ pj_pc = "done"
    /\ available_dates # <<>>
    /\ \E sessions \in ScanFolders(
              SortedDates({e.name : e \in {x \in data_dir : IsDateFolder(x)}}),
              data_dir) :
          IF sessions = <<>>
          THEN /\ pj_pc' = "crashed"
               /\ UNCHANGED labeled_sessions
          ELSE /\ labeled_sessions' =
                      LET merged == MergeLeft(sessions, date_ranges)
                      IN [k \in 1..Len(merged) |-> FillLabels(merged[k])]
               /\ pj_pc' = "matched"
    /\ UNCHANGED <<pj_injury_csv, lookback_days, data_dir, injury_df, pj_k,
                   date_ranges, available_dates, missing_dates>>

ProcessNext ==
    PJ_Parse \/ PJ_Expand \/ PJ_Ranges \/ PJ_Available \/ PJ_Missing \/ PJ_Match

(***************************************************************************)
(* train_model.py : train_injury_model                                     *)
(***************************************************************************)

\* the largest number of rows of labeled_training_data.csv
MaxTrainRows == 3

\* line 46: the date literal of the training mask, '2025-01-09'
TrainDate == <<"2", "0", "2", "5", "-", "0", "1", "-", "0", "9">>

\* line 47: the date literal of the test mask, '2025-01-17'
TestDate == <<"2", "0", "2", "5", "-", "0", "1", "-", "1", "7">>

\* the values of the 'date' column: the two dates of the split and another
\* day of the same month
TrainCsvDates ==
    { TrainDate, TestDate, <<"2", "0", "2", "5", "-", "0", "1", "-", "1", "0">> }

\* a row of labeled_training_data.csv: its date, one feature column (<<v>>
\* for the number v, <<>> for a missing value) and the label
TrainCsvRows ==
    [date : TrainCsvDates, avg_velocity : {<<>>, <<1>>}, injured : BOOLEAN]

\* line 26: read_csv gives the rows the RangeIndex 0, 1, ...
ReadCsv(csv) == [k \in 1..Len(csv) |-> [index |-> k - 1, row |-> csv[k]]]

\* line 42: fillna(0) on the feature columns
FillNa(v) == IF v = <<>> THEN <<0>> ELSE v

\* line 42: X = df[feature_cols].fillna(0)
FeatureFrame(frame) ==
    [k \in 1..Len(frame) |->
        [index |-> frame[k].index, avg_velocity |-> FillNa(frame[k].row.avg_velocity)]]

\* line 43: y = df['injured']
TargetSeries(frame) ==
    [k \in 1..Len(frame) |-> [index |-> frame[k].index, injured |-> frame[k].row.injured]]

\* a mask that takes every row of the literal's month
DateMaskSameMonth(frame, literal) ==
    [k \in 1..Len(frame) |-> SubSeq(frame[k].row.date, 1, 7) = SubSeq(literal, 1, 7)]

\* lines 46-47: df['date'] == literal, element by element
DateMask(frame, literal) ==
    [k \in 1..Len(frame) |-> frame[k].row.date = literal]

\* lines 49-50: boolean indexing keeps the rows whose mask is True, in order,
\* with their index
BoolIndex(frame, mask) ==
    LET Kept(r) == mask[r.index + 1]
    IN  SelectSeq(frame, Kept)

\* the labels of a series
Labels(series) == {series[k].injured : k \in 1..Len(series)}

TrainIdle ==
    /\ train_csv = <<>>
    /\ tm_df = <<>>
    /\ tm_X = <<>>
    /\ tm_y = <<>>
    /\ train_mask = <<>>
    /\ test_mask = <<>>
    /\ X_train = <<>>
    /\ X_test = <<>>
    /\ y_train = <<>>
    /\ y_test = <<>>
    /\ classes_ = {}
    /\ y_pred = <<>>
    /\ model_file = FALSE
    /\ tm_pc = "idle"

\* create_labeled_dataset writes at least one row (it stops on a feature
\* file without rows)
TrainInit ==
    /\ train_csv \in {c \in SeqsUpTo(TrainCsvRows, MaxTrainRows) : Len(c) >= 1}
    /\ tm_df = <<>>
    /\ tm_X = <<>>
    /\ tm_y = <<>>
    /\ train_mask = <<>>
    /\ test_mask = <<>>
    /\ X_train = <<>>
    /\ X_test = <<>>
    /\ y_train = <<>>
    /\ y_test = <<>>
    /\ classes_ = {}
    /\ y_pred = <<>>
    /\ model_file = FALSE
    /\ tm_pc = "start"

\* lines 26-43: load the data, take the feature columns and the target
TM_Load ==
    /\ UNCHANGED notTrain
    /\ tm_pc = "start"
    /\ tm_df' = ReadCsv(train_csv)
    /\ tm_X' = FeatureFrame(tm_df')
    /\ tm_y' = TargetSeries(tm_df')
    /\ tm_pc' = "masks"
    /\ UNCHANGED <<train_csv, train_mask, test_mask, X_train, X_test, y_train,
                   y_test, classes_, y_pred, model_file>>

\* lines 46-47: the two masks
TM_Masks ==
    /\ UNCHANGED notTrain
    /\ tm_pc = "masks"
    /\ train_mask' = DateMask(tm_df, TrainDate)
    /\ test_mask' = DateMask(tm_df, TestDate)
    /\ tm_pc' = "split"
    /\ UNCHANGED <<train_csv, tm_df, tm_X, tm_y, X_train, X_test, y_train, y_test,
                   classes_, y_pred, model_file>>

\* lines 49-50: the partitions
TM_Split ==
    /\ UNCHANGED notTrain
    /\ tm_pc = "split"
    /\ X_train' = BoolIndex(tm_X, train_mask)
    /\ X_test' = BoolIndex(tm_X, test_mask)
    /\ y_train' = BoolIndex(tm_y, train_mask)
    /\ y_test' = BoolIndex(tm_y, test_mask)
    /\ tm_pc' = "fit"
    /\ UNCHANGED <<train_csv, tm_df, tm_X, tm_y, train_mask, test_mask, classes_,
                   y_pred, model_file>>

\* lines 57-65: model.fit raises on a training set without samples
TM_Fit ==
    /\ UNCHANGED notTrain
    /\ tm_pc = "fit"
    /\ IF Len(X_train) = 0
          THEN /\ tm_pc' = "crashed"
               /\ UNCHANGED classes_
          ELSE /\ classes_' = Labels(y_train)
               /\ tm_pc' = "evaluate"
    /\ UNCHANGED <<train_csv, tm_df, tm_X, tm_y, train_mask, test_mask, X_train,
                   X_test, y_train, y_test, y_pred, model_file>>

\* lines 72-91: score (line 73) raises on a test set without samples;
\* predict_proba(X_test)[:, 1] (line 80) raises when one class only was
\* seen in training; classification_report (line 83) raises when the labels
\* of y_test and y_pred are not the two of target_names.  The predictions
\* are any labels among the classes seen in training.
TM_Evaluate ==
    /\ UNCHANGED notTrain
    /\ tm_pc = "evaluate"
    /\ IF Len(X_test) = 0
          THEN /\ tm_pc' = "crashed"
               /\ UNCHANGED y_pred
          ELSE \E pred \in [1..Len(X_test) -> classes_] :
                  /\ y_pred' = pred
                  /\ tm_pc' = IF \/ Cardinality(classes_) = 1
                                 \/ Labels(y_test) \cup {pred[k] : k \in 1..Len(pred)}
                                        # BOOLEAN
                                 THEN "crashed" ELSE "save"
    /\ UNCHANGED <<train_csv, tm_df, tm_X, tm_y, train_mask, test_mask, X_train,
                   X_test, y_train, y_test, classes_, model_file>>

\* lines 99-117: feature importances, joblib.dump, return model
TM_Save ==
    /\ UNCHANGED notTrain
    /\ tm_pc = "save"
    /\ model_file' = TRUE
    /\ tm_pc' = "returned"
    /\ UNCHANGED <<train_csv, tm_df, tm_X, tm_y, train_mask, test_mask, X_train,
                   X_test, y_train, y_test, classes_, y_pred>>

TrainNext ==
    \/ TM_Load
    \/ TM_Masks
    \/ TM_Split
    \/ TM_Fit
    \/ TM_Evaluate
    \/ TM_Save

(***************************************************************************)
(* create_training_data.py : process_session, create_training_data         *)
(***************************************************************************)

\* the largest number of files in the data directory
MaxSummaryFiles == 2

\* the largest number of samples of a payload
MaxSamples == 2

\* the sensor channels of a sample besides 'ts'
Channels == {"v", "a", "pl", "mp", "sl"}

\* the keys the samples of a payload carry: every channel, the timestamp
\* alone, or the channels without the timestamp
SampleKeys == { Channels \cup {"ts"}, {"ts"}, Channels }

\* the timestamps of the samples of a payload (seconds), in payload order
SampleTimes == { <<0>>, <<0, 300>>, <<300, 0>> }

\* the content of a file: "invalid" makes json.load raise, "emptylist" is [],
\* "scalar" is a JSON value that is neither a list nor an object, "object"
\* is a session payload (wrapped in a singleton list or not) whose 'data'
\* key may be absent
Contents ==
    { [kind |-> k, wrapped |-> FALSE, has_data |-> FALSE, ts |-> <<>>, keys |-> {}] :
        k \in {"invalid", "emptylist", "scalar"} }
    \cup
    { [kind |-> "object", wrapped |-> w, has_data |-> h, ts |-> <<>>, keys |-> {}] :
        w \in BOOLEAN, h \in BOOLEAN }
    \cup
    { [kind |-> "object", wrapped |-> w, has_data |-> TRUE, ts |-> t, keys |-> ks] :
        w \in BOOLEAN, t \in {s \in SampleTimes : Len(s) <= MaxSamples},
        ks \in SampleKeys }

\* a file of the directory: the number of '_'-separated tokens of its name
\* without '.json', the three tokens when there are three, and its content
SessionFiles ==
    { [tokens |-> 3, date |-> 1, athlete_id |-> a, activity_id |-> 1, content |-> c] :
        a \in AthleteIds, c \in Contents }
    \cup
    { [tokens |-> n, date |-> 0, athlete_id |-> 0, activity_id |-> 0, content |-> c] :
        n \in {2, 4}, c \in {x \in Contents : x.kind = "object" /\ ~x.wrapped /\ x.ts = <<0>>
                                               /\ x.keys = Channels \cup {"ts"}} }

\* the name of a file
SessionFileName(f) == <<f.tokens, f.date, f.athlete_id, f.activity_id>>

\* lines 23-31: the key of an injury record
LookupKey(f) == <<f.athlete_id, f.activity_id, f.date>>

\* a number, and a statistic of a channel over n samples
Num(k) == [kind |-> "num", channel |-> "", n |-> k]
Stat(kind, channel, n) == [kind |-> kind, channel |-> channel, n |-> n]

\* lines 111-121: df[c].<stat>() if c in df.columns else 0
ChannelStat(kind, channel, content) ==
    IF channel \in content.keys THEN Stat(kind, channel, Len(content.ts)) ELSE Num(0)

\* line 96: df['ts'].max() - df['ts'].min()
DurationSeconds(ts) ==
    LET S == {ts[k] : k \in 1..Len(ts)}
        hi == CHOOSE m \in S : \A x \in S : x <= m
        lo == CHOOSE m \in S : \A x \in S : m <= x
    IN  hi - lo

\* line 64: injury_lookup.get(key, {'injured': False, 'reason': '', ...})
InjuryInfo(lookup, f) ==
    IF LookupKey(f) \in lookup
       THEN [injured |-> TRUE, reason |-> "NO DATA (file < 1KB)"]
       ELSE [injured |-> FALSE, reason |-> ""]

\* lines 72-89: the record of a session without samples
EmptySummary(f, info) ==
    [ date |-> f.date, athlete_id |-> f.athlete_id, athlete_name |-> AthleteName(f.athlete_id),
      activity_id |-> f.activity_id, injured |-> TRUE,
      reason |-> IF info.reason # "" THEN info.reason ELSE "NO DATA",
      data_points |-> Num(0), duration_minutes |-> Num(0),
      avg_velocity |-> Num(0), max_velocity |-> Num(0),
      avg_acceleration |-> Num(0), max_acceleration |-> Num(0),
      avg_player_load |-> Num(0), max_player_load |-> Num(0),
      avg_metabolic_power |-> Num(0), max_metabolic_power |-> Num(0) ]

\* lines 102-122: the record of a session with samples
FullSummary(f, info) ==
    LET c == f.content
    IN  [ date |-> f.date, athlete_id |-> f.athlete_id, athlete_name |-> AthleteName(f.athlete_id),
          activity_id |-> f.activity_id, injured |-> info.injured, reason |-> info.reason,
          data_points |-> Num(Len(c.ts)),
          duration_minutes |-> Num(DurationSeconds(c.ts) \div 60),
          avg_velocity |-> ChannelStat("mean", "v", c),
          max_velocity |-> ChannelStat("max", "v", c),
          std_velocity |-> ChannelStat("std", "v", c),
          avg_acceleration |-> ChannelStat("mean", "a", c),
          max_acceleration |-> ChannelStat("max", "a", c),
          std_acceleration |-> ChannelStat("std", "a", c),
          avg_player_load |-> ChannelStat("mean", "pl", c),
          max_player_load |-> ChannelStat("max", "pl", c),
          avg_metabolic_power |-> ChannelStat("mean", "mp", c),
          max_metabolic_power |-> ChannelStat("max", "mp", c),
          avg_smooth_load |-> ChannelStat("mean", "sl", c) ]

\* lines 38-124: what process_session does with a file: "none" (return None),
\* "error" (print "Error reading", return None), "raise" (an exception
\* leaves the function) or "summary" (a record is returned)
ProcessSession(f, lookup) ==
    LET c == f.content
        info == InjuryInfo(lookup, f)
    IN  CASE f.tokens # 3 -> [outcome |-> "none"]                  \* lines 43-44
          [] c.kind = "invalid" -> [outcome |-> "error"]           \* lines 58-60
          [] c.kind = "emptylist" -> [outcome |-> "none"]          \* lines 55-56
          [] c.kind = "scalar" -> [outcome |-> "raise"]            \* line 67: data.get
          [] Len(c.ts) = 0 ->                                      \* lines 70-89
                [outcome |-> "summary", summary |-> EmptySummary(f, info)]
          [] "ts" \notin c.keys -> [outcome |-> "raise"]           \* line 96: df['ts']
          [] OTHER -> [outcome |-> "summary", summary |-> FullSummary(f, info)]

\* line 179: df[df['data_points'] > 0]
WithGpsData(rows) ==
    LET HasData(r) == r.data_points.n > 0
    IN  SelectSeq(rows, HasData)

SummaryIdle ==
    /\ ct_files = <<>>
    /\ ct_injury_lookup = {}
    /\ ct_i = 0
    /\ session_summaries = <<>>
    /\ ct_errors = 0
    /\ summary_csv = <<>>
    /\ clean_csv = <<>>
    /\ ct_pc = "idle"

SummaryInit ==
    /\ ct_files \in SeqsUpTo(SessionFiles, MaxSummaryFiles)
    /\ \A i, j \in 1..Len(ct_files) :
          i # j => SessionFileName(ct_files[i]) # SessionFileName(ct_files[j])
    /\ ct_injury_lookup = {}
    /\ ct_i = 0
    /\ session_summaries = <<>>
    /\ ct_errors = 0
    /\ summary_csv = <<>>
    /\ clean_csv = <<>>
    /\ ct_pc = "start"

\* lines 14-35 and 140-146: the injury labels and the list of files
CT_LoadLabels ==
    /\ UNCHANGED notSummary
    /\ ct_pc = "start"
    /\ \E lookup \in SUBSET {<<a, 1, 1>> : a \in AthleteIds} :
          ct_injury_lookup' = lookup
    /\ ct_i' = 1
    /\ ct_pc' = "files"
    /\ UNCHANGED <<ct_files, session_summaries, ct_errors, summary_csv, clean_csv>>

\* lines 147-153: one iteration of the file loop
CT_File ==
    /\ UNCHANGED notSummary
    /\ ct_pc = "files"
    /\ ct_i <= Len(ct_files)
    /\ LET r == ProcessSession(ct_files[ct_i], ct_injury_lookup)
       IN  /\ session_summaries' =
                 IF r.outcome = "summary"
                    THEN Append(session_summaries, r.summary)
                    ELSE session_summaries
           /\ ct_errors' = IF r.outcome = "error" THEN ct_errors + 1 ELSE ct_errors
           /\ ct_pc' = IF r.outcome = "raise" THEN "crashed" ELSE "files"
           /\ ct_i' = IF r.outcome = "raise" THEN ct_i ELSE ct_i + 1
    /\ UNCHANGED <<ct_files, ct_injury_lookup, summary_csv, clean_csv>>

\* the file loop is exhausted
CT_FilesDone ==
    /\ UNCHANGED notSummary
    /\ ct_pc = "files"
    /\ ct_i > Len(ct_files)
    /\ ct_pc' = "save"
    /\ UNCHANGED <<ct_files, ct_injury_lookup, ct_i, session_summaries, ct_errors,
                   summary_csv, clean_csv>>

\* lines 156-186: the statistics (df['injured'] raises on a table without
\* columns), the two csv files, return
CT_Save ==
    /\ UNCHANGED notSummary
    /\ ct_pc = "save"
    /\ IF session_summaries = <<>>
          THEN /\ ct_pc' = "crashed"
               /\ UNCHANGED <<summary_csv, clean_csv>>
          ELSE /\ summary_csv' = session_summaries
               /\ clean_csv' = WithGpsData(session_summaries)
               /\ ct_pc' = "returned"
    /\ UNCHANGED <<ct_files, ct_injury_lookup, ct_i, session_summaries, ct_errors>>

SummaryNext ==
    \/ CT_LoadLabels
    \/ CT_File
    \/ CT_FilesDone
    \/ CT_Save

(***************************************************************************)
(* prepare_model_data.py : prepare_model_data                              *)
(***************************************************************************)

\* the largest number of rows of training_data_summary.csv
MaxSummaryRows == 3

\* line 32: df['data_points'] >= 1000
MinModelPoints == 1000

\* a row of training_data_summary.csv, as far as it is read here; a row
\* without samples comes from a record that lacks three statistic columns
SummaryRows ==
    [ athlete_name : {NameAl, NameBo}, data_points : {0, 999, 1000, 1001},
      injured : BOOLEAN ]

\* create_training_data gives the file the columns of the records it holds:
\* std_velocity, std_acceleration and avg_smooth_load are columns of it only
\* when a session with samples is among its rows
HasFeatureCols(csv) == \E k \in 1..Len(csv) : csv[k].data_points > 0

\* line 32: df['data_points'] >= 1000
EnoughGpsData(row) == row.data_points >= MinModelPoints

PrepareIdle ==
    /\ training_summary_csv = <<>>
    /\ pm_df = <<>>
    /\ df_model = <<>>
    /\ model_training_csv = <<>>
    /\ pm_pc = "idle"

\* create_training_data writes at least one row (it stops on a table
\* without rows)
PrepareInit ==
    /\ training_summary_csv \in
          {c \in SeqsUpTo(SummaryRows, MaxSummaryRows) : Len(c) >= 1}
    /\ pm_df = <<>>
    /\ df_model = <<>>
    /\ model_training_csv = <<>>
    /\ pm_pc = "start"

\* lines 24-28: load the full dataset
PM_Load ==
    /\ UNCHANGED notPrepare
    /\ pm_pc = "start"
    /\ pm_df' = training_summary_csv
    /\ pm_pc' = "filter"
    /\ UNCHANGED <<training_summary_csv, df_model, model_training_csv>>

\* lines 30-56: the filter and the statistics of the filtered table
PM_Filter ==
    /\ UNCHANGED notPrepare
    /\ pm_pc = "filter"
    /\ df_model' = SelectSeq(pm_df, EnoughGpsData)
    /\ pm_pc' = "save"
    /\ UNCHANGED <<training_summary_csv, pm_df, model_training_csv>>

\* lines 58-107: df_model[feature_cols] raises when a listed column is not
\* in the table; the table is saved and returned
PM_Save ==
    /\ UNCHANGED notPrepare
    /\ pm_pc = "save"
    /\ IF HasFeatureCols(pm_df)
          THEN /\ model_training_csv' = df_model
               /\ pm_pc' = "returned"
          ELSE /\ pm_pc' = "crashed"
               /\ UNCHANGED model_training_csv
    /\ UNCHANGED <<training_summary_csv, pm_df, df_model>>

PrepareNext ==
    \/ PM_Load
    \/ PM_Filter
    \/ PM_Save

(***************************************************************************)
(* live_risk_monitor.py : predict_live_risk                                *)
(***************************************************************************)

\* the largest number of rows of rolling_window_features.csv
MaxTimePoints == 3

\* model.predict_proba(X)[:, 1] * 100 of a row: a forest of 100 trees gives
\* hundredths, so whole percentages; the values around the thresholds
RiskPercentages == {5, 10, 30, 45, 60, 75}

\* a row of rolling_window_features.csv: whether its date, athlete_id and
\* activity_id are those of the session file, and the risk the model gives it
RollingFeatureRows == [of_session : BOOLEAN, risk : RiskPercentages]

\* lines 98-105: the status of a time point
Status(risk) ==
    IF risk < 10 THEN "Low Risk"
    ELSE IF risk < 30 THEN "Moderate Risk"
    ELSE IF risk < 60 THEN "High Risk"
    ELSE "CRITICAL"

\* line 110: risk_probabilities.max()
MaxRisk(risks) ==
    CHOOSE m \in {risks[k] : k \in 1..Len(risks)} :
        \A k \in 1..Len(risks) : risks[k] <= m

\* lines 120-125: the line of the session summary
SummaryLine(max_risk) ==
    IF max_risk > 60 THEN "HIGH RISK DETECTED"
    ELSE IF max_risk > 30 THEN "MODERATE RISK"
    ELSE "Session completed safely"

MonitorIdle ==
    /\ lr_parts = 0
    /\ lr_features_csv = <<>>
    /\ session_features = <<>>
    /\ risk_probabilities = <<>>
    /\ lr_i = 0
    /\ lr_statuses = <<>>
    /\ lr_summary = ""
    /\ lr_pc = "idle"

MonitorInit ==
    /\ lr_parts \in {2, 3}
    /\ lr_features_csv \in SeqsUpTo(RollingFeatureRows, MaxTimePoints)
    /\ session_features = <<>>
    /\ risk_probabilities = <<>>
    /\ lr_i = 0
    /\ lr_statuses = <<>>
    /\ lr_summary = ""
    /\ lr_pc = "start"

\* lines 38-58: read the features, split the file name, select the rows of
\* the session; return on a name without three tokens or without a row
LR_Select ==
    /\ UNCHANGED notMonitor
    /\ lr_pc = "start"
    /\ IF lr_parts # 3
       THEN /\ lr_pc' = "returned"
            /\ UNCHANGED session_features
       ELSE /\ session_features' =
                   SelectSeq(lr_features_csv, LAMBDA row : row.of_session)
            /\ lr_pc' = IF session_features' = <<>> THEN "returned" ELSE "predict"
    /\ UNCHANGED <<lr_parts, lr_features_csv, risk_probabilities, lr_i,
                   lr_statuses, lr_summary>>

\* lines 80-85: the risk percentage of every row
LR_Predict ==
    /\ UNCHANGED notMonitor
    /\ lr_pc = "predict"
    /\ risk_probabilities' =
           [k \in 1..Len(session_features) |-> session_features[k].risk]
    /\ lr_i' = 1
    /\ lr_pc' = "rows"
    /\ UNCHANGED <<lr_parts, lr_features_csv, session_features, lr_statuses,
                   lr_summary>>

\* lines 91-107: one time point is displayed
LR_Row ==
    /\ UNCHANGED notMonitor
    /\ lr_pc = "rows"
    /\ lr_i <= Len(risk_probabilities)
    /\ lr_statuses' = Append(lr_statuses, Status(risk_probabilities[lr_i]))
    /\ lr_i' = lr_i + 1
    /\ UNCHANGED <<lr_parts, lr_features_csv, session_features,
                   risk_probabilities, lr_summary, lr_pc>>

\* lines 109-129: the session summary
LR_Summary ==
    /\ UNCHANGED notMonitor
    /\ lr_pc = "rows"
    /\ lr_i > Len(risk_probabilities)
    /\ lr_summary' = SummaryLine(MaxRisk(risk_probabilities))
    /\ lr_pc' = "returned"
    /\ UNCHANGED <<lr_parts, lr_features_csv, session_features,
                   risk_probabilities, lr_i, lr_statuses>>

MonitorNext == LR_Select \/ LR_Predict \/ LR_Row \/ LR_Summary

(***************************************************************************)
(* Specifications: one script runs, the others are idle                    *)
(***************************************************************************)
InitDay ==
    /\ DayInit
    /\ AnalyzeIdle
    /\ RollingIdle
    /\ CollectIdle
    /\ LightIdle
    /\ UpdateIdle
    /\ LabelIdle
    /\ ProcessIdle
    /\ TrainIdle
    /\ SummaryIdle
    /\ PrepareIdle
    /\ MonitorIdle
SpecDay == InitDay /\ [][DayNext]_vars

InitAnalyze ==
    /\ AnalyzeInit
    /\ DayIdle
    /\ RollingIdle
    /\ CollectIdle
    /\ LightIdle
    /\ UpdateIdle
    /\ LabelIdle
    /\ ProcessIdle
    /\ TrainIdle
    /\ SummaryIdle
    /\ PrepareIdle
    /\ MonitorIdle
SpecAnalyze == InitAnalyze /\ [][AnalyzeNext]_vars

InitRolling ==
    /\ RollingInit
    /\ DayIdle
    /\ AnalyzeIdle
    /\ CollectIdle
    /\ LightIdle
    /\ UpdateIdle
    /\ LabelIdle
    /\ ProcessIdle
    /\ TrainIdle
    /\ SummaryIdle
    /\ PrepareIdle
    /\ MonitorIdle
SpecRolling == InitRolling /\ [][RollingNext]_vars

InitCollect ==
    /\ CollectInit
    /\ DayIdle
    /\ AnalyzeIdle
    /\ RollingIdle
    /\ LightIdle
    /\ UpdateIdle
    /\ LabelIdle
    /\ ProcessIdle
    /\ TrainIdle
    /\ SummaryIdle
    /\ PrepareIdle
    /\ MonitorIdle
SpecCollect == InitCollect /\ [][CollectNext]_vars

InitLight ==
    /\ LightInit
    /\ DayIdle
    /\ AnalyzeIdle
    /\ RollingIdle
    /\ CollectIdle
    /\ UpdateIdle
    /\ LabelIdle
    /\ ProcessIdle
    /\ TrainIdle
    /\ SummaryIdle
    /\ PrepareIdle
    /\ MonitorIdle
SpecLight == InitLight /\ [][LightNext]_vars

InitUpdate ==
    /\ UpdateInit
    /\ DayIdle
    /\ AnalyzeIdle
    /\ RollingIdle
    /\ CollectIdle
    /\ LightIdle
    /\ LabelIdle
    /\ ProcessIdle
    /\ TrainIdle
    /\ SummaryIdle
    /\ PrepareIdle
    /\ MonitorIdle
SpecUpdate == InitUpdate /\ [][UpdateNext]_vars
SpecReapply == InitUpdate /\ [][ReapplyNext]_vars

InitLabel ==
    /\ LabelInit
    /\ DayIdle
    /\ AnalyzeIdle
    /\ RollingIdle
    /\ CollectIdle
    /\ LightIdle
    /\ UpdateIdle
    /\ ProcessIdle
    /\ TrainIdle
    /\ SummaryIdle
    /\ PrepareIdle
    /\ MonitorIdle
SpecLabel == InitLabel /\ [][LabelNext]_vars

InitProcess ==
    /\ ProcessInit
    /\ DayIdle
    /\ AnalyzeIdle
    /\ RollingIdle
    /\ CollectIdle
    /\ LightIdle
    /\ UpdateIdle
    /\ LabelIdle
    /\ TrainIdle
    /\ SummaryIdle
    /\ PrepareIdle
    /\ MonitorIdle
SpecProcess == InitProcess /\ [][ProcessNext]_vars

InitTrain ==
    /\ TrainInit
    /\ DayIdle
    /\ AnalyzeIdle
    /\ RollingIdle
    /\ CollectIdle
    /\ LightIdle
    /\ UpdateIdle
    /\ LabelIdle
    /\ ProcessIdle
    /\ SummaryIdle
    /\ PrepareIdle
    /\ MonitorIdle
SpecTrain == InitTrain /\ [][TrainNext]_vars

InitSummary ==
    /\ SummaryInit
    /\ DayIdle
    /\ AnalyzeIdle
    /\ RollingIdle
    /\ CollectIdle
    /\ LightIdle
    /\ UpdateIdle
    /\ LabelIdle
    /\ ProcessIdle
    /\ TrainIdle
    /\ PrepareIdle
    /\ MonitorIdle
SpecSummary == InitSummary /\ [][SummaryNext]_vars

InitPrepare ==
    /\ PrepareInit
    /\ DayIdle
    /\ AnalyzeIdle
    /\ RollingIdle
    /\ CollectIdle
    /\ LightIdle
    /\ UpdateIdle
    /\ LabelIdle
    /\ ProcessIdle
    /\ TrainIdle
    /\ SummaryIdle
    /\ MonitorIdle
SpecPrepare == InitPrepare /\ [][PrepareNext]_vars

InitMonitor ==
    /\ MonitorInit
    /\ DayIdle
    /\ AnalyzeIdle
    /\ RollingIdle
    /\ CollectIdle
    /\ LightIdle
    /\ UpdateIdle
    /\ LabelIdle
    /\ ProcessIdle
    /\ TrainIdle
    /\ SummaryIdle
    /\ PrepareIdle
SpecMonitor == InitMonitor /\ [][MonitorNext]_vars

(***************************************************************************)
(* Claims about detect_injuries_on_date                                    *)
(***************************************************************************)
\* the sessions of the target date, their number and the sum of their durations
DaySessions == {r \in 1..Len(df) : df[r].date = target_date}
RECURSIVE SumDurOver(_)
SumDurOver(R) ==
    IF R = {} THEN 0
    ELSE LET r == CHOOSE x \in R : TRUE
         IN df[r].duration_minutes + SumDurOver(R \ {r})
ReturnedFor(r) == {k \in 1..Len(injured_athletes) : injured_athletes[k].row = r}

\* C1: when detect_injuries_on_date has returned, every session of the target
\* date has exactly one outcome by strict precedence: it is returned with
\* 'NO DATA' iff data_points = 0, with 'MINIMAL DATA' iff 0 < data_points <
\* 1000, with 'EARLY EXIT' iff data_points >= 1000 and the date's mean
\* duration > 10 and its duration < 50% of the mean; otherwise it is not
\* returned; no session is returned twice and no other session is returned.
C1_Precedence ==
    di_pc = "returned" =>
        LET n == Cardinality(DaySessions)
            total == SumDurOver(DaySessions)
            Has(r, why) == \E k \in ReturnedFor(r) : injured_athletes[k].reason = why
        IN /\ \A k \in 1..Len(injured_athletes) : injured_athletes[k].row \in DaySessions
           /\ \A r \in DaySessions :
                /\ Cardinality(ReturnedFor(r)) <= 1
                /\ Has(r, "NO DATA") <=> df[r].data_points = 0
                /\ Has(r, "MINIMAL DATA") <=>
                       (0 < df[r].data_points /\ df[r].data_points < 1000)
                /\ Has(r, "EARLY EXIT") <=>
                       /\ df[r].data_points >= 1000
                       /\ total > 10 * n
                       /\ 2 * n * df[r].duration_minutes < total
                /\ \A k \in ReturnedFor(r) :
                       injured_athletes[k].reason
                           \in {"NO DATA", "MINIMAL DATA", "EARLY EXIT"}

\* C1 witness: a returned run over a date holding a NO DATA session, a
\* session with exactly 1000 points that left early, and one not returned
C1_Witness ==
    /\ di_pc = "returned"
    /\ \E k \in 1..Len(injured_athletes) : injured_athletes[k].reason = "NO DATA"
    /\ \E k \in 1..Len(injured_athletes) :
          /\ injured_athletes[k].reason = "EARLY EXIT"
          /\ injured_athletes[k].data_points = 1000
    /\ \E r \in DaySessions : ReturnedFor(r) = {}

\* C2: whenever the mean duration of the target date's sessions is <= 10
\* minutes, no EARLY EXIT entry is ever in the list, whatever the durations
C2_NoEarlyExitOnShortDay ==
    SumDurOver(DaySessions) <= 10 * Cardinality(DaySessions) =>
        \A k \in 1..Len(injured_athletes) : injured_athletes[k].reason # "EARLY EXIT"

\* C2 witness: a returned run over a date whose mean is <= 10 and that holds
\* a session with >= 1000 points lasting less than half the mean
C2_Witness ==
    /\ di_pc = "returned"
    /\ DaySessions # {}
    /\ SumDurOver(DaySessions) <= 10 * Cardinality(DaySessions)
    /\ \E r \in DaySessions :
          /\ df[r].data_points >= 1000
          /\ 2 * Cardinality(DaySessions) * df[r].duration_minutes
                < SumDurOver(DaySessions)
(***************************************************************************)
(* Claims about analyze_injuries                                           *)
(***************************************************************************)
OkIdx == {i \in 1..Len(files) : files[i].kind = "ok"}
Scanned == {i \in OkIdx : i < ai_i}
SameActivity(i) == {j \in OkIdx : files[j].activity_id = files[i].activity_id}
RECURSIVE SumFileDur(_)
SumFileDur(I) ==
    IF I = {} THEN 0
    ELSE LET i == CHOOSE x \in I : TRUE
         IN files[i].duration_minutes + SumFileDur(I \ {i})
\* the candidates appended for the session of file i
CandidatesOf(i) ==
    {k \in 1..Len(injured_candidates) :
        /\ injured_candidates[k].date = files[i].date
        /\ injured_candidates[k].athlete_id = files[i].athlete_id
        /\ injured_candidates[k].activity_id = files[i].activity_id}
PerFileOf(i) == {k \in CandidatesOf(i) : injured_candidates[k].reason.tag # "EARLY EXIT"}
EarlyOf(i) == {k \in CandidatesOf(i) : injured_candidates[k].reason.tag = "EARLY EXIT"}
\* the activity of file i averages more than 10 minutes / file i lasted less
\* than half of that average
LongActivity(i) == SumFileDur(SameActivity(i)) > 10 * Cardinality(SameActivity(i))
UnderHalf(i) ==
    2 * Cardinality(SameActivity(i)) * files[i].duration_minutes
        < SumFileDur(SameActivity(i))

\* C3: for every parsed session the file loop has passed, the per-file
\* heuristic appended a candidate iff file_size < 1000 or the sample count is
\* < 100; the reason is 'NO DATA (file < 1KB)' whenever file_size < 1000 and
\* 'MINIMAL DATA (N points)' with N the sample count only when file_size >=
\* 1000; a session with 0 samples is always flagged.
C3_PerFileHeuristic ==
    \A i \in Scanned :
        LET f == files[i]
            R == {injured_candidates[k].reason : k \in PerFileOf(i)}
        IN /\ Cardinality(PerFileOf(i)) <= 1
           /\ (R # {}) <=> (f.file_size < 1000 \/ f.data_points < 100)
           /\ f.file_size < 1000 =>
                  R = {[tag |-> "NO DATA (file < 1KB)", n |-> 0]}
           /\ (f.file_size >= 1000 /\ f.data_points < 100) =>
                  R = {[tag |-> "MINIMAL DATA", n |-> f.data_points]}
           /\ f.data_points = 0 => R # {}

\* C3 witness: the loop has flagged a file below 1000 bytes that also has
\* fewer than 100 samples as NO DATA, and a 0-sample file of 1000 bytes as
\* MINIMAL DATA (0 points)
C3_Witness ==
    /\ \E i \in Scanned :
          /\ files[i].file_size < 1000 /\ files[i].data_points < 100
          /\ \E k \in PerFileOf(i) :
                injured_candidates[k].reason.tag = "NO DATA (file < 1KB)"
    /\ \E i \in Scanned :
          /\ files[i].file_size >= 1000
          /\ \E k \in PerFileOf(i) :
                injured_candidates[k].reason = [tag |-> "MINIMAL DATA", n |-> 0]

\* C4 as claimed: the returned list holds an entry for the (athlete_id,
\* activity_id) of every session lasting under 50% of its activity's average,
\* when that average exceeds 10 minutes, and no EARLY EXIT is raised for an
\* activity averaging 10 minutes or less
C4_AsClaimed ==
    ai_pc = "returned" =>
        /\ \A i \in OkIdx :
              (LongActivity(i) /\ UnderHalf(i)) =>
                  \E k \in 1..Len(unique_injured) :
                      /\ unique_injured[k].athlete_id = files[i].athlete_id
                      /\ unique_injured[k].activity_id = files[i].activity_id
        /\ \A i \in OkIdx : EarlyOf(i) # {} => LongActivity(i)

\* C4 (amended): every session with a positive duration under 50% of its
\* activity's average, when that average exceeds 10 minutes, gets an EARLY
\* EXIT candidate and the returned list holds an entry for its (athlete_id,
\* activity_id); an EARLY EXIT candidate is raised for no other session, in
\* particular for none whose activity averages 10 minutes or less.
C4_EarlyExitPositiveDuration ==
    ai_pc = "returned" =>
        \A i \in OkIdx :
            /\ (EarlyOf(i) # {}) <=>
                   (LongActivity(i) /\ UnderHalf(i) /\ files[i].duration_minutes > 0)
            /\ EarlyOf(i) # {} =>
                   \E k \in 1..Len(unique_injured) :
                       /\ unique_injured[k].athlete_id = files[i].athlete_id
                       /\ unique_injured[k].activity_id = files[i].activity_id

\* C4 witness: a returned run in which a session the per-file heuristic let
\* pass is in the list with an EARLY EXIT reason
C4_Witness ==
    /\ ai_pc = "returned"
    /\ \E i \in OkIdx :
          /\ files[i].file_size >= 1000 /\ files[i].data_points >= 100
          /\ LongActivity(i) /\ UnderHalf(i)
          /\ \E k \in 1..Len(unique_injured) :
                /\ unique_injured[k].date = files[i].date
                /\ unique_injured[k].athlete_id = files[i].athlete_id
                /\ unique_injured[k].activity_id = files[i].activity_id
                /\ unique_injured[k].reason.tag = "EARLY EXIT"

\* the first candidate, in append order, of an (athlete_id, activity_id)
FirstSeen(a, c) ==
    LET K == {k \in 1..Len(injured_candidates) :
                 /\ injured_candidates[k].athlete_id = a
                 /\ injured_candidates[k].activity_id = c}
    IN injured_candidates[CHOOSE k \in K : \A m \in K : k <= m]

\* C5: the returned list holds at most one entry per (athlete_id,
\* activity_id); each entry is the first-seen candidate of its pair; and a
\* pair that has a per-file candidate (NO DATA / MINIMAL DATA) never carries
\* an EARLY EXIT reason, also when the early-exit rule flagged it too.
C5_DedupKeepsFirstSeen ==
    ai_pc = "returned" =>
        /\ \A k, m \in 1..Len(unique_injured) :
              (/\ unique_injured[k].athlete_id = unique_injured[m].athlete_id
               /\ unique_injured[k].activity_id = unique_injured[m].activity_id)
                  => k = m
        /\ \A k \in 1..Len(unique_injured) :
              unique_injured[k] =
                  FirstSeen(unique_injured[k].athlete_id, unique_injured[k].activity_id)
        /\ \A i \in OkIdx : PerFileOf(i) # {} =>
              \E k \in 1..Len(unique_injured) :
                  /\ unique_injured[k].athlete_id = files[i].athlete_id
                  /\ unique_injured[k].activity_id = files[i].activity_id
                  /\ unique_injured[k].reason.tag # "EARLY EXIT"

\* C5 witness: a returned run in which one session was flagged both by the
\* per-file heuristic and by the early-exit rule
C5_Witness ==
    /\ ai_pc = "returned"
    /\ \E i \in OkIdx : PerFileOf(i) # {} /\ EarlyOf(i) # {}

\* C13 as claimed: after a completed run detected_injuries.csv holds exactly
\* the list that run computed, also when the list is empty
C13_CsvHoldsThisRunsList ==
    ai_pc = "returned" => detected_csv = unique_injured

(***************************************************************************)
(* Claims about create_rolling_features                                    *)
(***************************************************************************)
\* seconds from the first sample to sample k, and the largest of them
Elapsed(k) == rf_ts[k] - rf_ts[1]
FinalElapsed ==
    LET neg == {0 - Elapsed(k) : k \in 1..Len(rf_ts)}
    IN  0 - (CHOOSE m \in neg : \A n \in neg : m <= n)
\* the samples whose elapsed minutes are <= the cutoff
Within(cutoff) == {k \in 1..Len(rf_ts) : Elapsed(k) <= 60 * cutoff}
Beyond(cutoff) == 60 * cutoff > FinalElapsed
\* the loop reaches cutoff k: no cutoff before it lies beyond the session's end
Reached(k) == \A j \in 1..(k - 1) : ~Beyond(window_intervals[j])
RowsFor(cutoff) ==
    {r \in 1..Len(rolling_features) : rolling_features[r].window_minutes = cutoff}

\* C6 as claimed: every cutoff of the list that exceeds the session's final
\* elapsed minute has a row computed over the entire sample sequence
C6_AsClaimed ==
    rf_pc = "returned" =>
        \A k \in 1..Len(window_intervals) :
            Beyond(window_intervals[k]) =>
                \E r \in RowsFor(window_intervals[k]) :
                    rolling_features[r].data_points = Len(rf_ts)

\* C6 (amended): a cutoff that exceeds the session's final elapsed minute
\* yields no row and ends the evaluation of the list (no later cutoff yields
\* a row); a row over the entire sample sequence is yielded exactly for a
\* reached cutoff equal to the final elapsed minute of a session of at least
\* 100 samples.
C6_NoRowBeyondSessionEnd ==
    rf_pc = "returned" =>
        /\ \A r \in 1..Len(rolling_features) :
              ~Beyond(rolling_features[r].window_minutes)
        /\ \A k \in 1..Len(window_intervals) :
              Beyond(window_intervals[k]) => Len(rolling_features) <= k - 1
        /\ \A k \in 1..Len(window_intervals) :
              (\E r \in RowsFor(window_intervals[k]) :
                    rolling_features[r].data_points = Len(rf_ts))
              <=> (\E j \in 1..Len(window_intervals) :
                      /\ window_intervals[j] = window_intervals[k]
                      /\ Reached(j)
                      /\ 60 * window_intervals[j] = FinalElapsed
                      /\ Len(rf_ts) >= 100)

\* C6 witness: a returned run whose first cutoff gave a row and whose second
\* cutoff exceeds the final elapsed minute of a session of 100+ samples
C6_Witness ==
    /\ rf_pc = "returned"
    /\ Len(window_intervals) = 2
    /\ Len(rf_ts) >= 100
    /\ Beyond(window_intervals[2])
    /\ Len(rolling_features) = 1

\* C7: no row is computed over fewer than 100 samples: a row's data_points is
\* the number of samples within its cutoff and is >= 100; a cutoff with fewer
\* than 100 samples within it has no row; and every cutoff the loop reaches,
\* also after such a skipped one, has a row iff >= 100 samples lie within it.
C7_AtLeast100Samples ==
    /\ \A r \in 1..Len(rolling_features) :
          /\ rolling_features[r].data_points >= 100
          /\ rolling_features[r].data_points =
                 Cardinality(Within(rolling_features[r].window_minutes))
    /\ rf_pc = "returned" =>
          \A k \in 1..Len(window_intervals) :
              (Reached(k) /\ ~Beyond(window_intervals[k])) =>
                  ((RowsFor(window_intervals[k]) # {})
                      <=> Cardinality(Within(window_intervals[k])) >= 100)

\* C7 witness: a returned run that skipped its first cutoff for having fewer
\* than 100 samples within it and gave a row for the second
C7_Witness ==
    /\ rf_pc = "returned"
    /\ Len(window_intervals) = 2
    /\ ~Beyond(window_intervals[1])
    /\ Cardinality(Within(window_intervals[1])) < 100
    /\ RowsFor(window_intervals[2]) # {}

\* C24: the samples a row summarizes (the window of its cutoff) are exactly
\* the samples of the payload whose elapsed minutes are <= the cutoff
C24_WindowIsSamplesWithinCutoff ==
    \A r \in 1..Len(rolling_features) :
        LET cutoff == rolling_features[r].window_minutes
        IN  WindowSamples(0, EndIdx(cutoff, rf_ts), rf_ts) = Within(cutoff)

(***************************************************************************)
(* Claims about data_collector.py                                          *)
(***************************************************************************)
\* the requests of this call for one athlete of one activity / the requests
\* whose payload was written
RequestsFor(act, ath) ==
    {k \in 1..Len(dc_log) : dc_log[k].act = act /\ dc_log[k].ath = ath}
Written == {k \in 1..Len(dc_log) : dc_log[k].outcome = "ok"}
Failed == {k \in 1..Len(dc_log) : dc_log[k].outcome = "error"}

\* C8 as claimed: a sensor request is never issued while the request before
\* it has not been followed by the rate-limit delay
C8_DelayBetweenRequests == dc_unslept <= 1

\* C9: within one collect_data_for_date call no athlete is requested twice
\* (no retry), the counter equals the number of payloads written (a failed
\* request counts no file), every athlete of a roster the loop has passed
\* was requested exactly once also after an earlier failure, and when the
\* call returns every activity's roster was asked for once, every rostered
\* athlete was requested exactly once and the returned total is the number
\* of payloads written.
C9_FailedAthleteSkippedOnly ==
    /\ \A k, m \in 1..Len(dc_log) :
          (dc_log[k].act = dc_log[m].act /\ dc_log[k].ath = dc_log[m].ath) => k = m
    /\ dc_pc \in {"roster", "sensor", "sleep"} =>
          /\ total_files = Cardinality(Written)
          /\ Len(dc_rosters) = (IF dc_pc = "roster" THEN dc_a - 1 ELSE dc_a)
          /\ \A act \in 1..(dc_a - 1) : \A ath \in 1..dc_rosters[act] :
                Cardinality(RequestsFor(act, ath)) = 1
    /\ dc_pc = "sensor" =>
          \A ath \in 1..(dc_i - 1) : Cardinality(RequestsFor(dc_a, ath)) = 1
    /\ dc_pc = "sleep" =>
          \A ath \in 1..dc_i : Cardinality(RequestsFor(dc_a, ath)) = 1
    /\ dc_pc = "returned" =>
          /\ dc_result = Cardinality(Written)
          /\ Len(dc_rosters) = dc_activities
          /\ \A act \in 1..dc_activities : \A ath \in 1..dc_rosters[act] :
                Cardinality(RequestsFor(act, ath)) = 1

\* C9 witness: a call has returned in which the request for the first
\* athlete of the first activity failed, the next athlete of that roster was
\* written, and the second activity's athletes were requested as well
C9_Witness ==
    /\ dc_pc = "returned"
    /\ \E k \in Failed : dc_log[k].act = 1 /\ dc_log[k].ath = 1
    /\ \E k \in Written : dc_log[k].act = 1 /\ dc_log[k].ath = 2
    /\ \E k \in 1..Len(dc_log) : dc_log[k].act = 2
    /\ dc_result < Len(dc_log)

\* C10 as claimed: with the credential present the run only ends by getting
\* through every date: no failed API request ends it early
C10_NoRequestFailureEndsRun ==
    (dc_token /\ dc_pc \in {"done", "crashed"}) =>
        (dc_pc = "done" /\ dc_d > NumDates)

(***************************************************************************)
(* Claims about lightweight_collector.py                                   *)
(***************************************************************************)
\* C11 as claimed: without the credential no vendor API request is issued
\* (the script aborts with a configuration error first)
C11_NoRequestWithoutCredential == (~lw_token) => lw_requests = 0

\* the rows the first date of the command line left in the csv, and the rows
\* after them
FirstRunRows == SubSeq(lw_csv.rows, 1, total_sessions)
LaterRows == SubSeq(lw_csv.rows, total_sessions + 1, Len(lw_csv.rows))
SecondRunOfSameDate ==
    /\ lw_argv = <<1, 1>>
    /\ lw_d = 2
    /\ lw_pc = "returned"
Occurrences(row) == {k \in 1..Len(lw_csv.rows) : lw_csv.rows[k] = row}

\* C12: when collect_date_lightweight has run a second time for the same
\* date, the csv holds the first run's rows followed by all the rows of the
\* second run (none is left out for being present already), and when the
\* second run extracted the same sessions as the first, every session row of
\* the date is in the csv exactly twice.
C12_SecondRunAppendsAgain ==
    SecondRunOfSameDate =>
        /\ Len(lw_csv.rows) = total_sessions + Len(lw_result)
        /\ lw_result # <<>> => LaterRows = FrameRows(lw_result)
        /\ (FirstRunRows = FrameRows(lw_result)) =>
              \A k \in 1..Len(lw_csv.rows) :
                  Cardinality(Occurrences(lw_csv.rows[k])) = 2

\* C12 witness: the second run of the same date has returned the sessions the
\* first run returned, and there is at least one
C12_Witness ==
    /\ SecondRunOfSameDate
    /\ lw_result # <<>>
    /\ FirstRunRows = FrameRows(lw_result)

\* C28: every data row of the output csv has the fields of the file's header
\* row, whatever calls of collect_date_lightweight have written to it
C28_RowsHaveTheHeadersFields ==
    lw_csv.exists =>
        \A k \in 1..Len(lw_csv.rows) : lw_csv.rows[k].fields = lw_csv.header

(***************************************************************************)
(* Claims about update_injury_dates_csv                                    *)
(***************************************************************************)
\* a name holds the letter / the word; the rows of the csv as it was read
HasLetter(name, c) == \E i \in 1..Len(name) : name[i] = c
HasUnknown(name) ==
    \E i \in 1..Len(name) : \A j \in 1..7 :
        i + j - 1 <= Len(name) /\ name[i + j - 1] = NameUnknown[j]
PlaceholderRows(date) ==
    {k \in 1..Len(ui_before) :
        ui_before[k].injury_date = date /\ HasUnknown(ui_before[k].athlete_name)}
DetectedOn(k) == detected_injuries[ui_before[k].injury_date]
HasWarning(notes) == \E i \in 1..Len(notes) : notes[i] = "WARNING"

\* C14: a placeholder row whose date has two or more detected injuries
\* receives the name and the reason of the first detected entry when its name
\* holds 'A', else of the second when it holds 'B', else of the first.
C14_MarkerPicksCandidate ==
    ui_pc = "returned" =>
        \A k \in 1..Len(ui_before) :
            (HasUnknown(ui_before[k].athlete_name) /\ Len(DetectedOn(k)) >= 2) =>
                LET name == ui_before[k].athlete_name
                    e == IF HasLetter(name, "A") THEN 1
                         ELSE IF HasLetter(name, "B") THEN 2 ELSE 1
                IN /\ df_injuries[k].athlete_name = DetectedOn(k)[e].athlete_name
                   /\ df_injuries[k].notes[1] = DetectedOn(k)[e].reason

\* C14 witness: a row named 'Unknown B' received the second of two different
\* detected entries, and a row whose name holds both letters the first
C14_Witness ==
    /\ ui_pc = "returned"
    /\ \E k \in 1..Len(ui_before) :
          /\ ui_before[k].athlete_name = NameUnknownB
          /\ Len(DetectedOn(k)) >= 2
          /\ DetectedOn(k)[1] # DetectedOn(k)[2]
          /\ df_injuries[k].athlete_name = DetectedOn(k)[2].athlete_name
    /\ \E k \in 1..Len(ui_before) :
          /\ ui_before[k].athlete_name = NameUnknownBA
          /\ Len(DetectedOn(k)) >= 2

C16_OnlyPlaceholderNameAndNotes ==
    ui_pc \in {"rows", "returned"} =>
        /\ Len(df_injuries) = Len(ui_before)
        /\ \A k \in 1..Len(ui_before) :
              /\ df_injuries[k].injury_date = ui_before[k].injury_date
              /\ df_injuries[k].injury_type = ui_before[k].injury_type
              /\ (~HasUnknown(ui_before[k].athlete_name) \/ DetectedOn(k) = <<>>)
                    => df_injuries[k] = ui_before[k]
        /\ ui_pc = "returned" => injury_dates_csv = WriteInjuryCsv(df_injuries)

\* C16 witness: a saved table with a row that was filled in, a named row on
\* a date with detected injuries and a placeholder on a date without
C16_Witness ==
    /\ ui_pc = "returned"
    /\ \E k \in 1..Len(ui_before) : df_injuries[k] # ui_before[k]
    /\ \E k \in 1..Len(ui_before) :
          ~HasUnknown(ui_before[k].athlete_name) /\ DetectedOn(k) # <<>>

\* the position, in the detection list of its date, of the entry whose name
\* and reason row k holds
ReceivedEntry(k) ==
    CHOOSE e \in 1..Len(DetectedOn(k)) :
        /\ df_injuries[k].athlete_name = DetectedOn(k)[e].athlete_name
        /\ df_injuries[k].notes[1] = DetectedOn(k)[e].reason

\* two placeholder rows of one date that has detected injuries
PlaceholderPairs ==
    {p \in (1..Len(ui_before)) \X (1..Len(ui_before)) :
        /\ p[1] < p[2]
        /\ ui_before[p[1]].injury_date = ui_before[p[2]].injury_date
        /\ HasUnknown(ui_before[p[1]].athlete_name)
        /\ HasUnknown(ui_before[p[2]].athlete_name)
        /\ DetectedOn(p[1]) # <<>>}

\* the name holds 'B' and no 'A'
MarkedSecond(k) ==
    /\ HasLetter(ui_before[k].athlete_name, "B")
    /\ ~HasLetter(ui_before[k].athlete_name, "A")

\* C26 as claimed: two placeholder rows that share an injury date have been
\* assigned distinct entries of that date's detection list
C26_AsClaimed ==
    ui_pc = "returned" =>
        \A p \in PlaceholderPairs : ReceivedEntry(p[1]) # ReceivedEntry(p[2])

\* C26 (amended): two placeholder rows that share an injury date have been
\* assigned distinct entries of that date's detection list exactly when the
\* list has two or more entries and the name of exactly one of the two rows
\* holds 'B' and no 'A'; that row holds the second entry and the other the
\* first.  In every other case both rows hold the same entry.
C26_DistinctOnlyByMarkers ==
    ui_pc = "returned" =>
        \A p \in PlaceholderPairs :
            LET apart == /\ Len(DetectedOn(p[1])) >= 2
                         /\ MarkedSecond(p[1]) # MarkedSecond(p[2])
            IN  /\ (ReceivedEntry(p[1]) # ReceivedEntry(p[2])) <=> apart
                /\ apart =>
                      /\ ReceivedEntry(p[1]) = (IF MarkedSecond(p[1]) THEN 2 ELSE 1)
                      /\ ReceivedEntry(p[2]) = (IF MarkedSecond(p[2]) THEN 2 ELSE 1)

\* C26 witness: a saved table in which 'Unknown A' and 'Unknown B' of one
\* date hold the two entries of the date
C26_Witness ==
    /\ ui_pc = "returned"
    /\ \E p \in PlaceholderPairs :
          /\ {ui_before[p[1]].athlete_name, ui_before[p[2]].athlete_name}
                 = {NameUnknownA, NameUnknownB}
          /\ ReceivedEntry(p[1]) # ReceivedEntry(p[2])

\* C27: a second call of update_injury_dates_csv, with the same detection
\* results on the csv the first call saved, runs to its end, changes no row
\* and reports zero updates
C27_SecondCallChangesNothing ==
    ui_calls = 2 =>
        /\ ui_pc # "crashed"
        /\ ui_pc = "returned" => (df_injuries = ui_before /\ updated_count = 0)

(***************************************************************************)
(* Claims about create_labeled_dataset                                     *)
(***************************************************************************)
\* the injury records with the athlete and the date of feature row k
RecordsFor(k) ==
    {j \in 1..Len(ld_injury_csv) :
        /\ ld_injury_csv[j].athlete_name = rolling_csv[k].athlete_name
        /\ ld_injury_csv[j].injury_date = rolling_csv[k].date}

\* C17: the saved dataset has one row per feature row, in order, each with the
\* feature row's columns; injured is true iff an injury record has the row's
\* athlete_name and date, and risk_level is 'injured' then, 'normal' otherwise.
C17_OneLabelledRowPerFeatureRow ==
    ld_pc = "returned" =>
        /\ Len(labeled_csv) = Len(rolling_csv)
        /\ labeled_csv = ToCsv(features_df)
        /\ \A k \in 1..Len(rolling_csv) :
              /\ features_df[k].athlete_name = rolling_csv[k].athlete_name
              /\ features_df[k].date = rolling_csv[k].date
              /\ features_df[k].window_minutes = rolling_csv[k].window_minutes
              /\ features_df[k].injured <=> RecordsFor(k) # {}
              /\ features_df[k].risk_level =
                     (IF RecordsFor(k) # {} THEN "injured" ELSE "normal")

\* C17 witness: a saved dataset with an injured row, a row of the same
\* athlete on another date that is normal, and two rows of one key
C17_Witness ==
    /\ ld_pc = "returned"
    /\ \E k, m \in 1..Len(features_df) :
          /\ features_df[k].injured
          /\ ~features_df[m].injured
          /\ features_df[m].athlete_name = features_df[k].athlete_name
    /\ \E k, m \in 1..Len(labeled_csv) : k # m /\ labeled_csv[k] = labeled_csv[m]

\* C23: reading labeled_training_data.csv back, as train_injury_model does,
\* gives for every row of the labelled dataset the same boolean injured
\* label and the same risk_level string
C23_LabelsSurviveCsv ==
    ld_pc = "returned" =>
        LET back == ReadLabels(labeled_csv)
        IN  /\ Len(back) = Len(features_df)
            /\ \A k \in 1..Len(features_df) :
                  /\ back[k].injured = BoolCell(features_df[k].injured)
                  /\ back[k].risk_level = TextCell(features_df[k].risk_level)

\* C23 witness: a saved dataset with an injured and a normal row, and one
\* whose rows are all injured
C23_Witness ==
    /\ ld_pc = "returned"
    /\ Len(labeled_csv) >= 2
    /\ \/ \E k, m \in 1..Len(features_df) :
              features_df[k].injured /\ ~features_df[m].injured
       \/ \A k \in 1..Len(features_df) : features_df[k].injured

(***************************************************************************)
(* Claims about process_injury_dates.py                                    *)
(***************************************************************************)
\* create_date_ranges has returned
RangesDone == pj_pc \in {"available", "missing", "done", "matched", "crashed"}
\* the records of the csv equal to record j, and the label rows that carry
\* record j's athlete and injury date for the day i days before it
SameRecords(j) == {m \in 1..Len(pj_injury_csv) : pj_injury_csv[m] = pj_injury_csv[j]}
LabelRowsOf(j, i) ==
    {r \in 1..Len(date_ranges) :
        /\ date_ranges[r].athlete_name = pj_injury_csv[j].athlete_name
        /\ date_ranges[r].injury_date = pj_injury_csv[j].injury_date
        /\ date_ranges[r].injury_type = pj_injury_csv[j].injury_type
        /\ date_ranges[r].days_until_injury = i
        /\ ToDatetime(date_ranges[r].date)
               = ToDatetime(pj_injury_csv[j].injury_date) - i}
OneRowPerDay ==
    /\ Len(date_ranges) = Len(pj_injury_csv) * (lookback_days + 1)
    /\ \A r \in 1..Len(date_ranges) :
          date_ranges[r].days_until_injury \in 0..lookback_days
    /\ \A j \in 1..Len(pj_injury_csv) : \A i \in 0..lookback_days :
          Cardinality(LabelRowsOf(j, i)) = Cardinality(SameRecords(j))

SessionCollected(date, athlete) ==
    \E entry \in data_dir :
        /\ Len(entry.name) >= Len(date)
        /\ SubSeq(entry.name, 1, Len(date)) = date
        /\ athlete \in entry.athletes
FolderOf(date) == \E entry \in data_dir : entry.is_dir /\ entry.name = date
Reported(date) == \E k \in 1..Len(missing_dates) : missing_dates[k] = date

\* C19 as claimed: every (date, athlete_name) a label row requests without a
\* collected session of that athlete on that date is reported as missing
C19_AsClaimed ==
    pj_pc = "done" =>
        \A r \in 1..Len(date_ranges) :
            ~SessionCollected(date_ranges[r].date, date_ranges[r].athlete_name)
                => Reported(date_ranges[r].date)

\* C19 (amended): a date the label rows request is reported as missing iff
\* the data directory holds no folder named by that date, whatever sessions
\* the folder holds; nothing else is reported.
C19_MissingByDateFolder ==
    pj_pc = "done" =>
        /\ \A r \in 1..Len(date_ranges) :
              Reported(date_ranges[r].date) <=> ~FolderOf(date_ranges[r].date)
        /\ \A k \in 1..Len(missing_dates) :
              \E r \in 1..Len(date_ranges) : date_ranges[r].date = missing_dates[k]

\* C19 witness: a label row asks for an athlete on a date whose folder holds
\* no session of that athlete, the date is not reported, and another date is
C19_Witness ==
    /\ pj_pc = "done"
    /\ missing_dates # <<>>
    /\ \E r \in 1..Len(date_ranges) :
          /\ FolderOf(date_ranges[r].date)
          /\ ~SessionCollected(date_ranges[r].date, date_ranges[r].athlete_name)
          /\ ~Reported(date_ranges[r].date)

(***************************************************************************)
(* Claims about train_injury_model                                         *)
(***************************************************************************)

\* the partitions exist from the split on, whatever happens afterwards
SplitDone == tm_pc \in {"fit", "evaluate", "save", "returned", "crashed"}

\* the index labels of the rows of a partition
IndexOf(part) == {part[k].index : k \in 1..Len(part)}

\* a partition holds no row twice
NoRowTwice(part) == Cardinality(IndexOf(part)) = Len(part)

\* C20: in train_injury_model a row of the data is in the training set iff
\* its date equals the training date and in the test set iff its date equals
\* the test date (for the features and for the labels alike); no row is in
\* both, and a row whose date is neither of the two is in neither partition
C20_TemporalSplit ==
    SplitDone =>
        /\ \A k \in 1..Len(train_csv) :
              /\ (k - 1 \in IndexOf(X_train)) <=> (train_csv[k].date = TrainDate)
              /\ (k - 1 \in IndexOf(y_train)) <=> (train_csv[k].date = TrainDate)
              /\ (k - 1 \in IndexOf(X_test)) <=> (train_csv[k].date = TestDate)
              /\ (k - 1 \in IndexOf(y_test)) <=> (train_csv[k].date = TestDate)
              /\ train_csv[k].date \notin {TrainDate, TestDate}
                    => k - 1 \notin IndexOf(X_train) \cup IndexOf(X_test)
                                      \cup IndexOf(y_train) \cup IndexOf(y_test)
        /\ IndexOf(X_train) \cap IndexOf(X_test) = {}
        /\ IndexOf(y_train) \cap IndexOf(y_test) = {}
        /\ IndexOf(X_train) \cup IndexOf(X_test) \subseteq 0..(Len(train_csv) - 1)
        /\ NoRowTwice(X_train) /\ NoRowTwice(X_test)
        /\ NoRowTwice(y_train) /\ NoRowTwice(y_test)
        /\ \A j \in 1..Len(y_train) :
              y_train[j].injured = train_csv[y_train[j].index + 1].injured
        /\ \A j \in 1..Len(y_test) :
              y_test[j].injured = train_csv[y_test[j].index + 1].injured

\* a run that has split and fitted on three rows: one of the training date,
\* one of the test date and one of another date, which is in neither partition
C20_Witness ==
    /\ tm_pc = "evaluate"
    /\ Len(train_csv) = 3
    /\ Len(X_train) = 1
    /\ Len(X_test) = 1
    /\ \E k \in 1..3 : train_csv[k].date \notin {TrainDate, TestDate}

(***************************************************************************)
(* Claims about create_training_data.py                                    *)
(***************************************************************************)

\* the fields of a record that identify or label the session
SessionFields == {"date", "athlete_id", "athlete_name", "activity_id", "injured", "reason"}

\* data_points, duration and the summary statistics that the record of a
\* session with samples carries
StatisticFields ==
    LET f == CHOOSE x \in SessionFiles : x.tokens = 3 /\ Len(x.content.ts) > 0
                                          /\ "ts" \in x.content.keys
    IN  (DOMAIN FullSummary(f, InjuryInfo({}, f))) \ SessionFields

\* C21: for a payload whose sample list is empty, the record process_session
\* returns carries data_points, duration and every summary statistic of the
\* record of a session with samples, each equal to 0
C21_EmptySessionAllZero ==
    \A k \in 1..Len(session_summaries) :
        LET r == session_summaries[k]
        IN  r.data_points = Num(0) =>
                \A fld \in StatisticFields : fld \in DOMAIN r /\ r[fld] = Num(0)

\* a file is malformed when its name does not split into three tokens or
\* its JSON is not a session object or a singleton list
Malformed(f) == f.tokens # 3 \/ f.content.kind \in {"invalid", "emptylist", "scalar"}

\* the malformed files the loop has gone past
MalformedScanned == {k \in 1..Len(ct_files) : k < ct_i /\ Malformed(ct_files[k])}

\* C22: in create_training_data a file whose name does not split into three
\* tokens, or whose JSON has an unexpected shape, contributes no summary, has
\* one warning printed for it, and does not stop the remaining files from
\* being processed
C22_MalformedFileWarnedAndSkipped ==
    /\ ct_pc \in {"files", "save", "returned"} =>
          ct_errors = Cardinality(MalformedScanned)
    /\ (ct_pc = "crashed" /\ ct_i <= Len(ct_files)) => ~Malformed(ct_files[ct_i])
    /\ \A k \in 1..Len(session_summaries) :
          \E j \in 1..Len(ct_files) :
              /\ ~Malformed(ct_files[j])
              /\ ct_files[j].athlete_id = session_summaries[k].athlete_id

\* the labelled rows of the session of an athlete on a date
LabelledRowsOf(date, athlete) ==
    {r \in 1..Len(labeled_sessions) :
        /\ labeled_sessions[r].date = date
        /\ labeled_sessions[r].athlete_name = athlete}

\* C29: match_sessions_to_labels outputs exactly one labelled row per readable
\* session file of the date folders, also when several injury records of the
\* athlete cover the date; a session without a label row gets 'normal' and -1
C29_OneRowPerSessionFile ==
    pj_pc = "matched" =>
        /\ \A entry \in {x \in data_dir : IsDateFolder(x)} :
              /\ \A athlete \in entry.athletes :
                    Cardinality(LabelledRowsOf(entry.name, athlete)) = 1
              /\ Cardinality({r \in 1..Len(labeled_sessions) :
                                 labeled_sessions[r].date = entry.name})
                    = Cardinality(entry.athletes)
        /\ \A r \in 1..Len(labeled_sessions) :
              (\A k \in 1..Len(date_ranges) :
                    ~SameKey(labeled_sessions[r], date_ranges[k]))
                  => /\ labeled_sessions[r].risk_level = "normal"
                     /\ labeled_sessions[r].days_until_injury = -1

(***************************************************************************)
(* Claims about prepare_model_data                                         *)
(***************************************************************************)

\* how often a row occurs in a table
TimesIn(table, row) == Cardinality({k \in 1..Len(table) : table[k] = row})

\* C25: the table prepare_model_data writes holds only sessions with more
\* than 1000 data points (a session of exactly 1000 or fewer is left out),
\* and it holds every input session that has more than 1000
C25_OnlySessionsOver1000Points ==
    pm_pc = "returned" =>
        /\ \A k \in 1..Len(model_training_csv) :
              model_training_csv[k].data_points > 1000
        /\ \A k \in 1..Len(training_summary_csv) :
              training_summary_csv[k].data_points > 1000 =>
                  TimesIn(model_training_csv, training_summary_csv[k])
                      = TimesIn(training_summary_csv, training_summary_csv[k])

(***************************************************************************)
(* Claims about predict_live_risk                                          *)
(***************************************************************************)
Displayed(status) == \E k \in 1..Len(lr_statuses) : lr_statuses[k] = status

\* C30: once the summary is printed, a time point displayed as CRITICAL means
\* the summary is HIGH RISK DETECTED, and the summary 'Session completed
\* safely' means no time point was displayed as High Risk or CRITICAL
C30_SummaryAgreesWithStatuses ==
    lr_summary # "" =>
        /\ Displayed("CRITICAL") => lr_summary = "HIGH RISK DETECTED"
        /\ lr_summary = "Session completed safely" =>
              ~Displayed("High Risk") /\ ~Displayed("CRITICAL")

====
